---- MODULE Spec2Model ----
(***************************************************************************)
(* Run orchestration and queueing of the reply agent.                      *)
(*                                                                         *)
(* The admission branch, the agent turn and its exit paths are translated  *)
(* from src/src/auto-reply/reply/agent-runner.ts (runReplyAgent).  The     *)
(* follow-up queue (enqueueFollowupRun, scheduleFollowupDrain), the        *)
(* derivation of the shouldSteer / shouldFollowup flags and the cancel of  *)
(* interrupt mode live in queue.ts and in the caller of runReplyAgent;     *)
(* they follow section 4.1 of the specification (RunQueue).                *)
(*                                                                         *)
(* Spec and SpecInterrupt follow the requests and turns of a conversation  *)
(* key.  SpecStream and SpecSession follow one call of runReplyAgent from  *)
(* inside: the block deliveries and their dedup keys, the final payloads,  *)
(* the failure payloads and the session store.  SpecFormat applies         *)
(* formatAssistantErrorText (src/src/agents/pi-embedded-helpers.ts).       *)
(* SpecDelivery adds the tool-result deliveries and deliveries that throw. *)
(* SpecTyping follows the typing signaler of one call (typing-mode, in     *)
(* src/src/config/types.ts).  SpecFallback (model fallback and cooldown    *)
(* ledger, section 4.3) and SpecLane (global concurrency cap, section 5)   *)
(* follow the specification: that code is outside src/.  SpecOrder        *)
(* follows the hand-over of the blocks to the delivery callback,           *)
(* SpecHeartbeat the stripping of the heartbeat token on every path,       *)
(* SpecOverflow the catch of the model call, SpecShared the calls of two   *)
(* keys over one store file, SpecLive the queue under run termination,     *)
(* and SpecCli the per-key chain of src/src/agents/cli-runner.ts.          *)
(***************************************************************************)
EXTENDS Naturals, Sequences, FiniteSets

\* ------------------------------------------------------------------ bounds

\* Requests that arrive in one behaviour (request ids are 1..MaxRequests and
\* are handed out in arrival order).
MaxRequests == 4
\* Largest queue cap a configuration may choose.
MaxCap == 2
\* Requests that arrive in one behaviour of the interrupt specification, where
\* every request starts a turn and the turns stream blocks side by side.
MaxTurns == 2
\* Turns whose model call is in flight side by side (cancelled ones included):
\* a request interrupts only while fewer are in flight.
MaxInFlight == 2
\* onBlockReply calls of one turn.
MaxBlocks == 2
\* Final payloads of one turn.
MaxFinal == 2
\* Tool results that one turn forwards.
MaxTools == 2
\* Logical model calls of the fallback coordinator in one behaviour.
MaxCalls == 3
\* Streaming events of one turn that reach the typing signaler.
MaxSignals == 3

\* -------------------------------------------------------------- vocabulary

\* Conversation keys.  Queue, run state and session are per key and no
\* operation reads another key's state, so one key carries the behaviour.
Keys == {"main"}

QueueMode ==
    {"steer", "followup", "collect", "steer-backlog", "steer+backlog",
     "queue", "interrupt"}

QueueDropPolicy == {"old", "new", "summarize"}

NoSession == [known |-> FALSE, updatedAt |-> 0]

VARIABLES
    settings,    \* QueueSettings resolved for the conversation keys
    runs,        \* every runReplyAgent / follow-up turn started, in start order
    backlog,     \* per key: the pending FollowupRun entries, oldest first
    timerArmed,  \* per key: the collect debounce timer is running
    sessions,    \* per key: the Session record of the store
    now,         \* Date.now(): one tick per arriving request
    decisions,   \* per request id: its key and its AdmitDecision
    last         \* the operation that produced the current state

\* One call of runReplyAgent seen from inside: its parameters, the block
\* deliveries it starts, the session store it writes and what it returns.
VARIABLES
    call,                        \* the parameters of the call
    pc,                          \* "idle", "admit", "model" or "done"
    store,                       \* sessionStore: conversation key -> entry
    disk,                        \* the store as saveSessionStore last wrote it
    clock,                       \* Date.now()
    streamedPayloadKeys,         \* keys of the blocks delivered (374)
    pendingStreamedPayloadKeys,  \* keys of the blocks in flight (368, 383)
    blockTasks,                  \* every delivery task created, in order
    toolTasks,                   \* every tool-result task created, in order
    didStreamBlockReply,         \* (146, 375)
    outcome,                     \* how the call ended
    step                         \* the inputs of the step that was last taken

\* The parts around the call: the model fallback of the model call, the
\* global lane the runs execute in, the typing signals of one call.
VARIABLES
    fallback,    \* one logical model call of the fallback coordinator
    lane,        \* the runs that execute and the runs that wait
    typing,      \* the typing signaler of one call and what it has called
    shared,      \* the calls of several keys over one session store file
    cli          \* CLI_RUN_QUEUE and the tasks that were enqueued

queueVars ==
    <<settings, runs, backlog, timerArmed, sessions, now, decisions, last>>

replyVars ==
    <<call, pc, store, disk, clock, streamedPayloadKeys,
      pendingStreamedPayloadKeys, blockTasks, toolTasks, didStreamBlockReply,
      outcome, step>>

auxVars == <<fallback, lane, typing, shared, cli>>

vars == <<queueVars, replyVars, auxVars>>

\* --------------------------------------------------------- follow-up runs

\* A FollowupRun: the prompts it carries, in order, and how it was built.
Single(id) == [prompts |-> <<id>>, kind |-> "single"]

RECURSIVE AllPrompts(_)
AllPrompts(bl) ==
    IF bl = <<>> THEN <<>> ELSE Head(bl).prompts \o AllPrompts(Tail(bl))

SeqToSet(s) == {s[i] : i \in 1..Len(s)}

\* ------------------------------------------------------------- run state

IsActive(rs, k) == \E r \in 1..Len(rs) : rs[r].key = k /\ rs[r].isActive

IsStreaming(rs, k) ==
    \E r \in 1..Len(rs) : rs[r].key = k /\ rs[r].isActive /\ rs[r].isStreaming

\* The turns whose model call has not ended, cancelled or not.
InFlight(rs) == {r \in 1..Len(rs) : rs[r].pc = "model"}

\* The live run of a key (the one an injection reaches).
LiveRun(rs, k) ==
    CHOOSE r \in 1..Len(rs) : rs[r].key = k /\ rs[r].isActive /\ rs[r].isStreaming

NewRun(k, entry) ==
    [key |-> k, entry |-> entry, injected |-> <<>>,
     isActive |-> TRUE, isStreaming |-> FALSE, stale |-> FALSE,
     pendingBlock |-> FALSE, didStreamBlockReply |-> FALSE,
     pc |-> "model", staleOutput |-> FALSE]

\* ------------------------------------------------- admission (the caller)

\* Which modes try to steer and which keep a backlog.
ShouldSteer(mode) == mode \in {"steer", "steer-backlog", "steer+backlog"}

ShouldFollowup(mode) ==
    mode \in {"followup", "collect", "steer-backlog", "steer+backlog", "queue"}

\* interrupt: the active run of the key is cancelled; its model call is not
\* aborted, it only stops holding the key.
CancelActive(rs, k) ==
    [r \in 1..Len(rs) |->
        IF rs[r].key = k /\ rs[r].isActive
        THEN [rs[r] EXCEPT !.isActive = FALSE, !.isStreaming = FALSE,
                           !.stale = TRUE]
        ELSE rs[r]]

\* ----------------------------------------------------------- the backlog

\* enqueueFollowupRun: append under cap / drop; collect merges into one entry.
enqueueFollowupRun(bl, id, st) ==
    IF st.mode = "collect"
    THEN [backlog |->
             IF bl = <<>> THEN <<Single(id)>>
             ELSE <<[prompts |-> AllPrompts(bl) \o <<id>>, kind |-> "collect"]>>,
          decision |-> "Enqueued"]
    ELSE IF Len(bl) < st.cap
    THEN [backlog |-> Append(bl, Single(id)), decision |-> "Enqueued"]
    ELSE CASE st.drop = "old" ->
                [backlog |-> Append(Tail(bl), Single(id)),
                 decision |-> "Enqueued"]
           [] st.drop = "new" ->
                [backlog |-> bl, decision |-> "Dropped"]
           [] st.drop = "summarize" ->
                [backlog |->
                    <<[prompts |-> AllPrompts(bl) \o <<id>>,
                       kind |-> "summary"]>>,
                 decision |-> "Enqueued"]

\* drainNext: start the oldest backlog entry, or leave the key free.
scheduleFollowupDrain(rs, bl, k) ==
    IF bl[k] = <<>>
    THEN [runs |-> rs, backlog |-> bl]
    ELSE [runs |-> Append(rs, NewRun(k, Head(bl[k]))),
          backlog |-> [bl EXCEPT ![k] = Tail(bl[k])]]

\* ------------------------------------------------------ runReplyAgent

\* agent-runner.ts:171  if (shouldSteer && isStreaming)
SteerAttempt(shouldSteer, isStreaming) == shouldSteer /\ isStreaming

SteerReturns_Always(steered, shouldFollowup) == steered

\* agent-runner.ts:176  if (steered && !shouldFollowup) ... return undefined
SteerReturns(steered, shouldFollowup) == steered /\ ~shouldFollowup

ShouldEnqueue_NoSteerFallback(isActive, shouldFollowup, mode) ==
    isActive /\ shouldFollowup

ShouldEnqueue_SteerOnly(isActive, shouldFollowup, mode) ==
    isActive /\ mode = "steer"

\* agent-runner.ts:189  if (isActive && (shouldFollowup || mode === "steer"))
ShouldEnqueue(isActive, shouldFollowup, mode) ==
    isActive /\ (shouldFollowup \/ mode = "steer")

EnqueueFollowup_NoSettings(bl, id, st) ==
    [backlog |-> Append(bl, Single(id)), decision |-> "Enqueued"]

\* agent-runner.ts:190  enqueueFollowupRun(queueKey, followupRun, resolvedQueue)
EnqueueFollowup(bl, id, st) == enqueueFollowupRun(bl, id, st)

TouchSession_Skip(s, t) == s

\* agent-runner.ts:177-179 and 191-193: sessionEntry.updatedAt = Date.now()
TouchSession(s, t) ==
    IF s.known THEN [s EXCEPT !.updatedAt = t] ELSE s

finalizeWithFollowup_Noop(rs, bl, k) == [runs |-> rs, backlog |-> bl]

\* agent-runner.ts:214-217
finalizeWithFollowup(rs, bl, k) == scheduleFollowupDrain(rs, bl, k)


\* The exit of one turn, in the order of the code: the catch of the model
\* call (435-481), the group-intro save (483-496), "nothing to send"
\* (508, 564), the session save and the compaction count (577-646), the
\* final return (654).
ExitPath(modelOk, thrownIntro, empty, thrownLater) ==
    IF ~modelOk THEN "failure"
    ELSE IF thrownIntro THEN "thrown"
    ELSE IF empty THEN "nothing"
    ELSE IF thrownLater THEN "thrown"
    ELSE "payloads"

\* The returns that go through finalizeWithFollowup (470, 476, 508, 564, 654).
CallsFollowupDrain(exit) == exit \in {"failure", "nothing", "payloads"}

\* The returns that hand a payload to the caller (470, 476, 654).
ReturnsPayload(exit) == exit \in {"failure", "payloads"}

\* ------------------------------------------------ reply payloads and keys

\* A text is a sequence of characters; " " stands for any white space and
\* the empty sequence for a text that is undefined or empty.
RECURSIVE TrimStart(_)
TrimStart(t) ==
    IF t # <<>> /\ Head(t) = " " THEN TrimStart(Tail(t)) ELSE t

RECURSIVE TrimEnd(_)
TrimEnd(t) ==
    IF t # <<>> /\ t[Len(t)] = " "
    THEN TrimEnd(SubSeq(t, 1, Len(t) - 1))
    ELSE t

\* String.prototype.trim
Trim(t) == TrimEnd(TrimStart(t))

\* A field that is not set.
Undefined == "undefined"

Payload(text, mediaUrl, mediaUrls, replyToId) ==
    [text |-> text, mediaUrl |-> mediaUrl, mediaUrls |-> mediaUrls,
     replyToId |-> replyToId]

PA == Payload(<<"a">>, Undefined, <<>>, Undefined)
PA2 == Payload(<<" ", "a", " ">>, Undefined, <<>>, Undefined)
PB == Payload(<<"b">>, Undefined, <<>>, Undefined)
PR == Payload(<<"a">>, Undefined, <<>>, "r1")
PM == Payload(<<"a">>, "m", <<"m">>, Undefined)
PM1 == Payload(<<"a">>, "m", <<>>, Undefined)

\* The block payloads the embedded run hands to onBlockReply, as they are
\* after tagging and threading (339-360: mediaUrl is mediaUrls[0]).
BlockPayloads == {PA, PA2, PB, PR, PM}

\* The final payloads a run ends with, as they are after sanitizing,
\* threading, the renderable filter and the messaging-tool filter (510-555).
FinalPayloads == {PA2, PB, PM1}

\* agent-runner.ts:147-159
buildPayloadKey(payload) ==
    [text |-> Trim(payload.text),
     mediaList |->
        IF Len(payload.mediaUrls) > 0 THEN payload.mediaUrls
        ELSE IF payload.mediaUrl # Undefined THEN <<payload.mediaUrl>>
        ELSE <<>>,
     replyToId |->
        IF payload.replyToId = Undefined THEN "null" ELSE payload.replyToId]

AlreadyStreamed_StreamedOnly(key, streamed, pending) == key \in streamed

\* agent-runner.ts:362-365
AlreadyStreamed(key, streamed, pending) ==
    key \in streamed \/ key \in pending

FilterFinalPayloads_KeepAll(deduped, enabled, didStream, streamed) == deduped

\* agent-runner.ts:549-562
FilterFinalPayloads(deduped, enabled, didStream, streamed) ==
    LET shouldDropFinalPayloads == enabled /\ didStream
        NotStreamed(payload) == buildPayloadKey(payload) \notin streamed
    IN IF shouldDropFinalPayloads THEN <<>>
       ELSE IF enabled THEN SelectSeq(deduped, NotStreamed)
       ELSE deduped

\* ----------------------------------------------------- session entries

\* usage.x ?? 0: a usage is a record that holds the counters that are set.
UsageOr(usage, field, default) ==
    IF field \in DOMAIN usage THEN usage[field] ELSE default

\* hasNonzeroUsage (agents/usage.ts): some counter is a positive number.
hasNonzeroUsage(usage) == \E f \in DOMAIN usage : usage[f] > 0

\* agent-runner.ts:594-608
EntryWithUsage(entry, usage, meta, t) ==
    LET input == UsageOr(usage, "input", 0)
        output == UsageOr(usage, "output", 0)
        promptTokens ==
            input + UsageOr(usage, "cacheRead", 0)
                  + UsageOr(usage, "cacheWrite", 0)
    IN [entry EXCEPT
          !.inputTokens = input,
          !.outputTokens = output,
          !.totalTokens =
              IF promptTokens > 0 THEN promptTokens
              ELSE UsageOr(usage, "total", input),
          !.modelProvider = meta.provider,
          !.model = meta.model,
          !.contextTokens = meta.contextTokens,
          !.updatedAt = t]

\* agent-runner.ts:617-622
EntryWithModel(entry, meta) ==
    [entry EXCEPT
        !.modelProvider = meta.provider,
        !.model = meta.model,
        !.contextTokens = meta.contextTokens]

\* --------------------------------------------------------- failure texts

\* The longest run of raw provider text a reply may carry.
MaxErrorChars == 600

\* The message of the error a model call fails with: its length and whether
\* the overflow pattern (438) and the corruption signature (440) match it.
ErrorLens == {1, MaxErrorChars - 1, MaxErrorChars, MaxErrorChars + 1}

ErrorMessages == [len : ErrorLens, overflow : BOOLEAN, corruption : BOOLEAN]

NoError == [len |-> 0, overflow |-> FALSE, corruption |-> FALSE]

\* agent-runner.ts:443
RecoversCorruption(message, keyed, storePath) ==
    message.corruption /\ keyed /\ storePath

\* agent-runner.ts:470-480: the text of the payload a failed model call
\* returns, and the number of characters of the provider's message in it.
FailureText(message, keyed, storePath) ==
    IF RecoversCorruption(message, keyed, storePath)
    THEN [kind |-> "corruption", raw |-> 0]
    ELSE IF message.overflow
    THEN [kind |-> "overflow", raw |-> 0]
    ELSE [kind |-> "generic", raw |-> message.len]

\* ------------------------------------------------------------------ state

Blank ==
    [op |-> "init", key |-> "main", id |-> 0, run |-> 0,
     wasActive |-> FALSE, wasStreaming |-> FALSE, steered |-> FALSE,
     backlogBefore |-> <<>>, sessionBefore |-> NoSession, runsBefore |-> 0,
     decision |-> "none", exit |-> "none", markedComplete |-> FALSE,
     drained |-> FALSE]

\* The conversation key of the call that is followed in detail.
ReplyKey == CHOOSE k \in Keys : TRUE

EmptyStore == [k \in {} |-> 0]

NoCall ==
    [isActive |-> FALSE, isStreaming |-> FALSE,
     blockStreamingEnabled |-> FALSE, keyed |-> FALSE, storePath |-> FALSE,
     shouldInjectGroupIntro |-> FALSE, verbose |-> FALSE,
     isNewSession |-> FALSE, storeAtStart |-> EmptyStore]

NoFailure == [kind |-> "none", raw |-> 0]

NoOutcome ==
    [exit |-> "none", payloads |-> <<>>, failure |-> NoFailure,
     injected |-> FALSE, enqueued |-> FALSE, drained |-> FALSE,
     markedComplete |-> FALSE]

NoMeta == [model |-> "none", provider |-> "none", contextTokens |-> 0]

NoStep ==
    [op |-> "none", message |-> NoError, saveOk |-> TRUE, finals |-> <<>>,
     usage |-> EmptyStore, meta |-> NoMeta, storeBefore |-> EmptyStore]

\* No call is followed in detail.
ReplyIdle ==
    /\ call = NoCall
    /\ pc = "idle"
    /\ store = EmptyStore
    /\ disk = EmptyStore
    /\ clock = 0
    /\ streamedPayloadKeys = {}
    /\ pendingStreamedPayloadKeys = {}
    /\ blockTasks = <<>>
    /\ toolTasks = <<>>
    /\ didStreamBlockReply = FALSE
    /\ outcome = NoOutcome
    /\ step = NoStep

\* The unit of work of a model call ended without a failure.
Succeeded == [kind |-> "none", raw |-> {}]

\* No logical model call has been made: an empty candidate list and ledger.
NoFallback ==
    [pc |-> "idle", cfg |-> EmptyStore, candidates |-> <<>>,
     ledger |-> EmptyStore, now |-> 0, calls |-> 0, next |-> 0,
     attempts |-> <<>>, skipped |-> {},
     result |->
        [status |-> "none", error |-> Succeeded, candidate |-> "none"]]

\* No run was started in the global lane.
NoLane == [cfg |-> EmptyStore, mode |-> "followup", runs |-> <<>>]

\* No call with a typing signaler is followed.
NoTyping ==
    [pc |-> "idle",
     ctx |-> [configured |-> Undefined, isGroupChat |-> FALSE,
              wasMentioned |-> FALSE, isHeartbeat |-> FALSE],
     mode |-> "never", isHeartbeat |-> FALSE, events |-> 0, log |-> <<>>]

\* No call over a shared store file is followed: the file is empty.
NoShared == [file |-> EmptyStore, calls |-> EmptyStore, writes |-> <<>>]

\* No CLI run was enqueued: CLI_RUN_QUEUE is empty.
NoCli ==
    [cfg |-> EmptyStore, queue |-> EmptyStore, tasks |-> <<>>,
     unhandled |-> {}]

\* No model fallback, no lane and no typing signaler is followed.
FallbackIdle == fallback = NoFallback

LaneIdle == lane = NoLane

TypingIdle == typing = NoTyping

SharedIdle == shared = NoShared

CliIdle == cli = NoCli

SideIdle == SharedIdle /\ CliIdle

AuxIdle == FallbackIdle /\ LaneIdle /\ TypingIdle /\ SideIdle

\* The modes whose admission reads cap and drop (collect merges, interrupt
\* never enqueues: their settings carry one fixed cap and drop).
CapModes == QueueMode \ {"collect", "interrupt"}

Init ==
    /\ settings \in [mode : QueueMode, cap : 1..MaxCap, drop : QueueDropPolicy]
    /\ settings.mode \notin CapModes =>
          settings.cap = 1 /\ settings.drop = "old"
    /\ runs = <<>>
    /\ backlog = [k \in Keys |-> <<>>]
    /\ timerArmed = [k \in Keys |-> FALSE]
    /\ sessions \in [Keys -> {NoSession, [known |-> TRUE, updatedAt |-> 0]}]
    /\ now = 0
    /\ decisions = <<>>
    /\ last = Blank
    /\ ReplyIdle
    /\ AuxIdle

\* ---------------------------------------------------------------- actions

\* One inbound request for key k: the caller resolves the flags, then
\* runReplyAgent lines 171-200 decide; otherwise the turn starts (221-233).
Admit(k, injectOk) ==
    /\ now < MaxRequests
    /\ LET id == now + 1
           mode == settings.mode
           isActive == IsActive(runs, k)
           isStreaming == IsStreaming(runs, k)
           shouldSteer == ShouldSteer(mode)
           shouldFollowup == ShouldFollowup(mode)
           interrupting == isActive /\ mode = "interrupt"
           steered == SteerAttempt(shouldSteer, isStreaming) /\ injectOk
           rsSteered ==
               IF steered
               THEN [runs EXCEPT ![LiveRun(runs, k)].injected = Append(@, id)]
               ELSE runs
           enq == EnqueueFollowup(backlog[k], id, settings)
           decision ==
               IF SteerReturns(steered, shouldFollowup) THEN "Injected"
               ELSE IF ShouldEnqueue(isActive, shouldFollowup, mode)
               THEN enq.decision
               ELSE IF interrupting THEN "Interrupted"
               ELSE "StartNow"
       IN
       /\ injectOk => SteerAttempt(shouldSteer, isStreaming)
       /\ interrupting => Cardinality(InFlight(runs)) < MaxInFlight
       /\ now' = id
       /\ decisions' = Append(decisions, [key |-> k, decision |-> decision])
       /\ last' = [Blank EXCEPT !.op = "admit", !.key = k, !.id = id,
                                !.wasActive = isActive,
                                !.wasStreaming = isStreaming,
                                !.steered = steered,
                                !.backlogBefore = backlog[k],
                                !.sessionBefore = sessions[k],
                                !.runsBefore = Len(runs),
                                !.decision = decision]
       /\ IF SteerReturns(steered, shouldFollowup)
          THEN /\ runs' = rsSteered
               /\ sessions' = [sessions EXCEPT ![k] = TouchSession(@, id)]
               /\ UNCHANGED <<backlog, timerArmed>>
          ELSE IF ShouldEnqueue(isActive, shouldFollowup, mode)
          THEN /\ runs' = rsSteered
               /\ backlog' = [backlog EXCEPT ![k] = enq.backlog]
               /\ timerArmed' =
                      [timerArmed EXCEPT ![k] = @ \/ mode = "collect"]
               /\ sessions' = [sessions EXCEPT ![k] = TouchSession(@, id)]
          ELSE /\ runs' =
                      Append(IF interrupting THEN CancelActive(rsSteered, k)
                             ELSE rsSteered,
                             NewRun(k, Single(id)))
               /\ UNCHANGED <<backlog, timerArmed, sessions>>
    /\ UNCHANGED settings
    /\ UNCHANGED replyVars
    /\ UNCHANGED auxVars

\* The embedded run of r starts streaming (RunState.isStreaming).
StreamBegins(r) ==
    /\ r \in 1..Len(runs)
    /\ runs[r].pc = "model" /\ runs[r].isActive /\ ~runs[r].isStreaming
    /\ runs' = [runs EXCEPT ![r].isStreaming = TRUE]
    /\ last' = [Blank EXCEPT !.op = "stream", !.key = runs[r].key, !.run = r]
    /\ UNCHANGED <<settings, backlog, timerArmed, sessions, now, decisions>>
    /\ UNCHANGED replyVars
    /\ UNCHANGED auxVars

\* onBlockReply is invoked for a block of run r (321-368, 385): the delivery
\* task is created and is in flight.  A cancelled run gets no new callbacks.
BlockEmit(r) ==
    /\ r \in 1..Len(runs)
    /\ runs[r].pc = "model" /\ runs[r].isStreaming /\ ~runs[r].stale
    /\ ~runs[r].pendingBlock /\ ~runs[r].didStreamBlockReply
    /\ runs' = [runs EXCEPT ![r].pendingBlock = TRUE]
    /\ last' = [Blank EXCEPT !.op = "emit", !.key = runs[r].key, !.run = r]
    /\ UNCHANGED <<settings, backlog, timerArmed, sessions, now, decisions>>
    /\ UNCHANGED replyVars
    /\ UNCHANGED auxVars

\* The delivery task of a block settles (369-384): typing signal, then
\* opts.onBlockReply(blockPayload).
BlockDeliver(r) ==
    /\ r \in 1..Len(runs)
    /\ runs[r].pendingBlock
    /\ runs' = [runs EXCEPT ![r].pendingBlock = FALSE,
                            ![r].didStreamBlockReply = TRUE,
                            ![r].staleOutput = @ \/ runs[r].stale]
    /\ last' = [Blank EXCEPT !.op = "deliver", !.key = runs[r].key, !.run = r]
    /\ UNCHANGED <<settings, backlog, timerArmed, sessions, now, decisions>>
    /\ UNCHANGED replyVars
    /\ UNCHANGED auxVars

\* The model call of run r ends and runReplyAgent runs to its return or to
\* the exception that leaves it (432-659).
RunFinish(r, modelOk, hasPayloads, thrownAt, intro, usageNonzero) ==
    /\ r \in 1..Len(runs)
    /\ runs[r].pc = "model"
    /\ LET run == runs[r]
           k == run.key
           s0 == sessions[k]
           introTaken == modelOk /\ intro /\ s0.known
           s1 == IF introTaken THEN TouchSession(s0, now) ELSE s0
           thrownIntro == introTaken /\ thrownAt = "intro"
           awaited == modelOk /\ ~thrownIntro
           didStream ==
               run.didStreamBlockReply \/ (awaited /\ run.pendingBlock)
           empty == ~hasPayloads \/ didStream
           saveTaken == awaited /\ ~empty /\ s1.known
           s2 == IF saveTaken /\ usageNonzero THEN TouchSession(s1, now)
                 ELSE s1
           thrownLater ==
               /\ awaited /\ ~empty
               /\ \/ saveTaken /\ thrownAt = "usage"
                  \/ thrownAt = "compaction"
           exit == ExitPath(modelOk, thrownIntro, empty, thrownLater)
           done ==
               [run EXCEPT
                   !.pc = "done",
                   !.isActive = FALSE, !.isStreaming = FALSE,
                   !.pendingBlock = IF awaited THEN FALSE ELSE @,
                   !.didStreamBlockReply = didStream,
                   !.staleOutput =
                       \/ @
                       \/ run.stale /\ ReturnsPayload(exit)
                       \/ run.stale /\ awaited /\ run.pendingBlock]
           rs1 == [runs EXCEPT ![r] = done]
           after ==
               IF CallsFollowupDrain(exit)
               THEN finalizeWithFollowup(rs1, backlog, k)
               ELSE [runs |-> rs1, backlog |-> backlog]
       IN
       /\ thrownAt # "none" => exit = "thrown"
       /\ ~modelOk => ~hasPayloads /\ ~intro /\ ~usageNonzero
       /\ intro => introTaken
       /\ usageNonzero => saveTaken
       /\ runs' = after.runs
       /\ backlog' = after.backlog
       /\ timerArmed' =
              [timerArmed EXCEPT ![k] = @ /\ after.backlog[k] # <<>>]
       /\ sessions' = [sessions EXCEPT ![k] = s2]
       /\ last' = [Blank EXCEPT !.op = "finish", !.key = k, !.run = r,
                                !.wasActive = run.isActive,
                                !.backlogBefore = backlog[k],
                                !.sessionBefore = s0,
                                !.runsBefore = Len(runs),
                                !.exit = exit,
                                !.markedComplete = TRUE,
                                !.drained = CallsFollowupDrain(exit)]
    /\ UNCHANGED <<settings, now, decisions>>
    /\ UNCHANGED replyVars
    /\ UNCHANGED auxVars

\* The collect debounce timer of key k elapses: the merged entry is drained
\* unless a run holds the key.
CollectTimerFires(k) ==
    /\ timerArmed[k]
    /\ timerArmed' = [timerArmed EXCEPT ![k] = FALSE]
    /\ LET after ==
               IF IsActive(runs, k)
               THEN [runs |-> runs, backlog |-> backlog]
               ELSE scheduleFollowupDrain(runs, backlog, k)
       IN /\ runs' = after.runs
          /\ backlog' = after.backlog
    /\ last' = [Blank EXCEPT !.op = "timer", !.key = k,
                             !.wasActive = IsActive(runs, k),
                             !.backlogBefore = backlog[k],
                             !.runsBefore = Len(runs)]
    /\ UNCHANGED <<settings, sessions, now, decisions>>
    /\ UNCHANGED replyVars
    /\ UNCHANGED auxVars

ThrowSites == {"none", "intro", "usage", "compaction"}

Next ==
    \/ \E k \in Keys, injectOk \in BOOLEAN : Admit(k, injectOk)
    \/ \E r \in 1..MaxRequests : StreamBegins(r)
    \/ \E r \in 1..MaxRequests, modelOk \in BOOLEAN, hasPayloads \in BOOLEAN,
          thrownAt \in ThrowSites, intro \in BOOLEAN, usageNonzero \in BOOLEAN :
          RunFinish(r, modelOk, hasPayloads, thrownAt, intro, usageNonzero)
    \/ \E k \in Keys : CollectTimerFires(k)

Spec == Init /\ [][Next]_vars

\* Every started run terminates and an armed debounce timer elapses: the
\* model call of a turn ends (each run carries a timeout) and the event loop
\* runs every timer that is due.
RunTerminates ==
    \E r \in 1..MaxRequests, modelOk \in BOOLEAN, hasPayloads \in BOOLEAN,
       thrownAt \in ThrowSites, intro \in BOOLEAN, usageNonzero \in BOOLEAN :
       RunFinish(r, modelOk, hasPayloads, thrownAt, intro, usageNonzero)

TimerElapses == \E k \in Keys : CollectTimerFires(k)

SpecLive ==
    /\ Init
    /\ [][Next]_vars
    /\ WF_vars(RunTerminates)
    /\ WF_vars(TimerElapses)

\* Interrupt mode with block streaming: the turns of one key, their block
\* deliveries and the requests that interrupt them.
InitInterrupt ==
    /\ Init
    /\ settings.mode = "interrupt"

NextInterrupt ==
    \/ \E k \in Keys : now < MaxTurns /\ Admit(k, FALSE)
    \/ \E r \in 1..MaxRequests : StreamBegins(r)
    \/ \E r \in 1..MaxRequests : BlockEmit(r)
    \/ \E r \in 1..MaxRequests : BlockDeliver(r)
    \/ \E r \in 1..MaxRequests, modelOk \in BOOLEAN, hasPayloads \in BOOLEAN,
          thrownAt \in ThrowSites, intro \in BOOLEAN, usageNonzero \in BOOLEAN :
          RunFinish(r, modelOk, hasPayloads, thrownAt, intro, usageNonzero)

SpecInterrupt == InitInterrupt /\ [][NextInterrupt]_vars

\* ------------------------------------------- one call of runReplyAgent

\* sessionEntry && sessionStore && sessionKey (177, 191, 485)
HasEntry == call.keyed /\ ReplyKey \in DOMAIN store

\* sessionEntry.updatedAt = Date.now() (178, 192, 491)
TouchEntry(entry, t) == [entry EXCEPT !.updatedAt = t]

DeleteEntry_Keep(st, k) == st

\* delete sessionStore[sessionKey] (462)
DeleteEntry(st, k) == [j \in DOMAIN st \ {k} |-> st[j]]

\* incrementCompactionCount (session-updates.ts): the entry counts one more
\* compaction.
incrementCompactionCount(st, k) ==
    IF k \in DOMAIN st
    THEN [st EXCEPT ![k].compactionCount = @ + 1]
    ELSE st

PriorEntry(needsIntro) ==
    [inputTokens |-> 7, outputTokens |-> 3, totalTokens |-> 7,
     model |-> "m1", modelProvider |-> "p1", contextTokens |-> 4,
     updatedAt |-> 0, compactionCount |-> 0,
     groupActivationNeedsSystemIntro |-> needsIntro]

\* modelUsed, providerUsed and contextTokensUsed of a result (579-589): each
\* of them is known for every result (defaultModel, DEFAULT_CONTEXT_TOKENS).
Metas ==
    {[model |-> "m1", provider |-> "p1", contextTokens |-> 4],
     [model |-> "m2", provider |-> "p2", contextTokens |-> 8]}

UsageFields == {"input", "output", "cacheRead", "cacheWrite", "total"}

UsageValues(f) ==
    CASE f = "input" -> {0, 100}
      [] f = "output" -> {50}
      [] f = "cacheRead" -> {25}
      [] f = "cacheWrite" -> {25}
      [] f = "total" -> {150}

\* runResult.meta.agentMeta?.usage: the counters that are set (none when the
\* result carries no usage), one cache counter at most.
Usages ==
    UNION {{u \in [S -> {0, 25, 50, 100, 150}] :
               \A f \in S : u[f] \in UsageValues(f)} :
           S \in {T \in SUBSET UsageFields :
                     ~({"cacheRead", "cacheWrite"} \subseteq T)}}

NoUsage == EmptyStore

\* The hint payloads of verbose mode (642, 649).
CompactionHint == Payload(<<"c">>, Undefined, <<>>, Undefined)
SessionHint == Payload(<<"n">>, Undefined, <<>>, Undefined)

\* The call starts: its parameters are fixed, nothing has run yet.
\* The queue as one call sees it: the resolved settings, nothing else moves.
QueueAtRest(modes) ==
    /\ settings \in [mode : modes, cap : {1}, drop : {"old"}]
    /\ runs = <<>>
    /\ backlog = [k \in Keys |-> <<>>]
    /\ timerArmed = [k \in Keys |-> FALSE]
    /\ sessions = [k \in Keys |-> NoSession]
    /\ now = 0
    /\ decisions = <<>>
    /\ last = Blank

ReplyCall(modes, enabled, keyedSet, verboseSet) ==
    /\ QueueAtRest(modes)
    /\ store \in {EmptyStore} \cup
                 {[k \in {ReplyKey} |-> PriorEntry(b)] : b \in BOOLEAN}
    /\ disk = store
    /\ call \in [isActive : BOOLEAN, isStreaming : BOOLEAN,
                 blockStreamingEnabled : enabled, keyed : keyedSet,
                 storePath : BOOLEAN, shouldInjectGroupIntro : BOOLEAN,
                 verbose : verboseSet, isNewSession : BOOLEAN,
                 storeAtStart : {store}]
    /\ call.isStreaming => call.isActive
    /\ ~call.isActive => settings.mode = "followup"
    /\ ~call.keyed => store = EmptyStore /\ ~call.storePath
    /\ call.shouldInjectGroupIntro => HasEntry
    /\ call.isNewSession => call.verbose
    /\ pc = "admit"
    /\ clock = 1
    /\ streamedPayloadKeys = {}
    /\ pendingStreamedPayloadKeys = {}
    /\ blockTasks = <<>>
    /\ toolTasks = <<>>
    /\ didStreamBlockReply = FALSE
    /\ outcome = NoOutcome
    /\ step = NoStep

\* A call with nothing around it followed.
ReplyStart(modes, enabled, keyedSet, verboseSet) ==
    /\ ReplyCall(modes, enabled, keyedSet, verboseSet)
    /\ AuxIdle

\* Lines 171-200: steer, enqueue, or go on to the turn.  A return here is
\* ahead of the try block: typing.cleanup() runs, markRunComplete does not.
ReplyAdmit(injectOk, saveOk) ==
    /\ pc = "admit"
    /\ LET mode == settings.mode
           shouldFollowup == ShouldFollowup(mode)
           steered ==
               SteerAttempt(ShouldSteer(mode), call.isStreaming) /\ injectOk
           steerReturns == SteerReturns(steered, shouldFollowup)
           enqueues ==
               ~steerReturns /\ ShouldEnqueue(call.isActive, shouldFollowup, mode)
           returns == steerReturns \/ enqueues
           touched ==
               IF returns /\ HasEntry
               THEN [store EXCEPT ![ReplyKey] = TouchEntry(@, clock)]
               ELSE store
           saves == returns /\ HasEntry /\ call.storePath
       IN
       /\ injectOk => SteerAttempt(ShouldSteer(mode), call.isStreaming)
       /\ ~saveOk => saves
       /\ store' = touched
       /\ disk' = IF saves /\ saveOk THEN touched ELSE disk
       /\ pc' = IF returns THEN "done" ELSE "model"
       /\ outcome' =
             IF returns
             THEN [NoOutcome EXCEPT
                      !.exit = IF saveOk THEN "nothing" ELSE "thrown",
                      !.injected = steered,
                      !.enqueued = enqueues]
             ELSE outcome
       /\ step' = [NoStep EXCEPT !.op = "admit", !.saveOk = saveOk,
                                 !.storeBefore = store]
    /\ UNCHANGED <<call, clock, streamedPayloadKeys,
                   pendingStreamedPayloadKeys, blockTasks,
                   didStreamBlockReply>>
    /\ UNCHANGED queueVars
    /\ UNCHANGED <<toolTasks, auxVars>>

\* onBlockReply (321-387) is called with a block: the key is built and
\* looked up, and a delivery task is created unless the key is known.
BlockReply(payload) ==
    /\ pc = "model"
    /\ call.blockStreamingEnabled
    /\ Len(blockTasks) < MaxBlocks
    /\ LET payloadKey == buildPayloadKey(payload)
           seen ==
               AlreadyStreamed(payloadKey, streamedPayloadKeys,
                               pendingStreamedPayloadKeys)
       IN
       /\ blockTasks' =
             Append(blockTasks,
                    [payload |-> payload, key |-> payloadKey,
                     stage |-> IF seen THEN "skipped" ELSE "pending"])
       /\ pendingStreamedPayloadKeys' =
             IF seen THEN pendingStreamedPayloadKeys
             ELSE pendingStreamedPayloadKeys \cup {payloadKey}
    /\ step' = [NoStep EXCEPT !.op = "block", !.storeBefore = store]
    /\ UNCHANGED <<call, pc, store, disk, clock, streamedPayloadKeys,
                   didStreamBlockReply, outcome>>
    /\ UNCHANGED queueVars
    /\ UNCHANGED <<toolTasks, auxVars>>

StreamedAfterSettle_Always(streamed, key, ok) == streamed \cup {key}

\* .then(() => streamedPayloadKeys.add(payloadKey)) and the .catch that logs
\* (373-381): the key of a delivery that threw is not recorded.
StreamedAfterSettle(streamed, key, ok) ==
    IF ok THEN streamed \cup {key} ELSE streamed

\* The delivery task i, which is at stage from, settles (373-384).
SettleFrom(from, i, ok) ==
    /\ i \in 1..Len(blockTasks)
    /\ blockTasks[i].stage = from
    /\ blockTasks' =
          [blockTasks EXCEPT ![i].stage = IF ok THEN "delivered" ELSE "failed"]
    /\ streamedPayloadKeys' =
          StreamedAfterSettle(streamedPayloadKeys, blockTasks[i].key, ok)
    /\ didStreamBlockReply' = (didStreamBlockReply \/ ok)
    /\ pendingStreamedPayloadKeys' =
          pendingStreamedPayloadKeys \ {blockTasks[i].key}
    /\ step' = [NoStep EXCEPT !.op = "settle", !.storeBefore = store]
    /\ UNCHANGED <<call, pc, store, disk, clock, outcome>>
    /\ UNCHANGED queueVars
    /\ UNCHANGED <<toolTasks, auxVars>>

\* The delivery task i settles (369-384): the typing signal and
\* opts.onBlockReply(blockPayload) went through, or one of them threw.
TaskSettle(i, ok) == SettleFrom("pending", i, ok)

\* onToolResult (390-428) is called with a tool result: a delivery task is
\* created and tracked in pendingToolTasks.
ToolResult ==
    /\ pc = "model"
    /\ Len(toolTasks) < MaxTools
    /\ toolTasks' = Append(toolTasks, "pending")
    /\ step' = [NoStep EXCEPT !.op = "tool", !.storeBefore = store]
    /\ UNCHANGED <<call, pc, store, disk, clock, streamedPayloadKeys,
                   pendingStreamedPayloadKeys, blockTasks,
                   didStreamBlockReply, outcome>>
    /\ UNCHANGED queueVars
    /\ UNCHANGED auxVars

\* The tool-result task i settles (395-426): the typing signal and
\* opts.onToolResult went through, or one of them threw and .catch logged it.
ToolSettle(i, ok) ==
    /\ i \in 1..Len(toolTasks)
    /\ toolTasks[i] = "pending"
    /\ toolTasks' = [toolTasks EXCEPT ![i] = IF ok THEN "delivered" ELSE "failed"]
    /\ step' = [NoStep EXCEPT !.op = "toolSettle", !.storeBefore = store]
    /\ UNCHANGED <<call, pc, store, disk, clock, streamedPayloadKeys,
                   pendingStreamedPayloadKeys, blockTasks,
                   didStreamBlockReply, outcome>>
    /\ UNCHANGED queueVars
    /\ UNCHANGED auxVars

\* The model call ends (432-496): with an error, the catch returns a failure
\* payload; with a result, the group intro is saved and the turn goes on to
\* wait for its pending tasks.
ModelEnds(message, saveOk) ==
    /\ pc = "model"
    /\ LET modelOk == message = NoError
           recovers ==
               ~modelOk /\ RecoversCorruption(message, call.keyed,
                                              call.storePath)
           introTaken ==
               /\ modelOk /\ call.shouldInjectGroupIntro /\ HasEntry
               /\ store[ReplyKey].groupActivationNeedsSystemIntro
           st ==
               IF recovers THEN DeleteEntry(store, ReplyKey)
               ELSE IF introTaken
               THEN [store EXCEPT
                        ![ReplyKey] =
                           TouchEntry(
                             [@ EXCEPT
                                 !.groupActivationNeedsSystemIntro = FALSE],
                             clock + 1)]
               ELSE store
           saves == recovers \/ (introTaken /\ call.storePath)
           thrownIntro == introTaken /\ ~saveOk
           exit == ExitPath(modelOk, thrownIntro, FALSE, FALSE)
       IN
       /\ ~saveOk => saves
       /\ clock' = clock + 1
       /\ store' = st
       /\ disk' = IF saves /\ saveOk THEN st ELSE disk
       /\ pc' = IF exit = "payloads" THEN "settle" ELSE "done"
       /\ outcome' =
             IF exit = "payloads" THEN outcome
             ELSE [NoOutcome EXCEPT
                      !.exit = exit,
                      !.failure =
                          IF modelOk THEN NoFailure
                          ELSE FailureText(message, call.keyed,
                                           call.storePath),
                      !.drained = CallsFollowupDrain(exit),
                      !.markedComplete = TRUE]
       /\ step' = [NoStep EXCEPT !.op = "model", !.message = message,
                                 !.saveOk = saveOk, !.storeBefore = store]
    /\ UNCHANGED <<call, streamedPayloadKeys, pendingStreamedPayloadKeys,
                   blockTasks, didStreamBlockReply>>
    /\ UNCHANGED queueVars
    /\ UNCHANGED <<toolTasks, auxVars>>

\* The pending tasks have settled (498-504) and the turn runs to its return
\* or to the exception that leaves it (508-659).
ReplyReturn(finals, usage, meta, compaction, thrownAt) ==
    /\ pc = "settle"
    /\ \A i \in 1..Len(blockTasks) :
          blockTasks[i].stage \notin {"pending", "handed"}
    /\ \A i \in 1..Len(toolTasks) : toolTasks[i] # "pending"
    /\ LET filtered ==
               FilterFinalPayloads(finals, call.blockStreamingEnabled,
                                   didStreamBlockReply, streamedPayloadKeys)
           empty == filtered = <<>>
           updates ==
               ~empty /\ call.keyed /\ ReplyKey \in DOMAIN store
           st1 ==
               IF ~updates THEN store
               ELSE IF hasNonzeroUsage(usage)
               THEN [store EXCEPT
                        ![ReplyKey] = EntryWithUsage(@, usage, meta, clock)]
               ELSE [store EXCEPT ![ReplyKey] = EntryWithModel(@, meta)]
           thrownUsage ==
               updates /\ call.storePath /\ thrownAt = "usage"
           counts == ~empty /\ ~thrownUsage /\ compaction
           st2 ==
               IF counts /\ call.keyed
               THEN incrementCompactionCount(st1, ReplyKey)
               ELSE st1
           thrownLater == thrownUsage \/ (counts /\ thrownAt = "compaction")
           exit == ExitPath(TRUE, FALSE, empty, thrownLater)
           hints ==
               (IF call.verbose /\ call.isNewSession
                THEN <<SessionHint>> ELSE <<>>)
               \o (IF compaction /\ call.verbose
                   THEN <<CompactionHint>> ELSE <<>>)
       IN
       /\ thrownAt # "none" => exit = "thrown"
       /\ compaction => counts
       /\ store' = st2
       /\ disk' =
             IF ~call.storePath THEN disk
             ELSE IF thrownUsage THEN disk
             ELSE IF counts /\ thrownAt = "compaction" THEN st1
             ELSE st2
       /\ outcome' =
             [NoOutcome EXCEPT
                 !.exit = exit,
                 !.payloads =
                     IF exit = "payloads" THEN hints \o filtered ELSE <<>>,
                 !.drained = CallsFollowupDrain(exit),
                 !.markedComplete = TRUE]
       /\ step' = [NoStep EXCEPT !.op = "return", !.finals = finals,
                                 !.usage = usage, !.meta = meta,
                                 !.saveOk = (thrownAt = "none"),
                                 !.storeBefore = store]
    /\ pc' = "done"
    /\ UNCHANGED <<call, clock, streamedPayloadKeys,
                   pendingStreamedPayloadKeys, blockTasks,
                   didStreamBlockReply>>
    /\ UNCHANGED queueVars
    /\ UNCHANGED <<toolTasks, auxVars>>

\* The sequences of at most n elements of S.
SeqsUpTo(S, n) == UNION {[1..m -> S] : m \in 0..n}

\* A turn for an idle key with block streaming: the blocks, their delivery
\* tasks and the final payloads.
InitStream == ReplyStart({"followup"}, BOOLEAN, {FALSE}, {FALSE})

NextStream ==
    \/ ReplyAdmit(FALSE, TRUE)
    \/ \E payload \in BlockPayloads : BlockReply(payload)
    \/ \E i \in 1..MaxBlocks, ok \in BOOLEAN : TaskSettle(i, ok)
    \/ ModelEnds(NoError, TRUE)
    \/ \E finals \in SeqsUpTo(FinalPayloads, MaxFinal), meta \in Metas :
          ReplyReturn(finals, NoUsage, meta, FALSE, "none")

SpecStream == InitStream /\ [][NextStream]_vars

\* A turn whose deliveries may throw: blocks of one text, tool results, and
\* the final payloads.
InitDelivery == ReplyStart({"followup"}, {TRUE}, {FALSE}, {FALSE})

NextDelivery ==
    \/ ReplyAdmit(FALSE, TRUE)
    \/ \E payload \in {PA, PA2} : BlockReply(payload)
    \/ \E i \in 1..MaxBlocks, ok \in BOOLEAN : TaskSettle(i, ok)
    \/ ToolResult
    \/ \E i \in 1..MaxTools, ok \in BOOLEAN : ToolSettle(i, ok)
    \/ ModelEnds(NoError, TRUE)
    \/ \E finals \in {<<>>, <<PA2>>, <<PB>>}, meta \in Metas :
          ReplyReturn(finals, NoUsage, meta, FALSE, "none")

SpecDelivery == InitDelivery /\ [][NextDelivery]_vars

\* A call in every queue mode with a session store: admission, the model
\* call and its failures, the session update.
InitSession == ReplyStart(QueueMode, BOOLEAN, BOOLEAN, BOOLEAN)

NextSession ==
    \/ \E injectOk \in BOOLEAN, saveOk \in BOOLEAN :
          ReplyAdmit(injectOk, saveOk)
    \/ blockTasks = <<>> /\ BlockReply(PA)
    \/ \E i \in 1..MaxBlocks, ok \in BOOLEAN : TaskSettle(i, ok)
    \/ \E message \in ErrorMessages \cup {NoError}, saveOk \in BOOLEAN :
          ModelEnds(message, saveOk)
    \/ \E finals \in {<<>>, <<PB>>}, usage \in Usages, meta \in Metas,
          compaction \in BOOLEAN, thrownAt \in ThrowSites :
          ReplyReturn(finals, usage, meta, compaction, thrownAt)

SpecSession == InitSession /\ [][NextSession]_vars

\* ------------------------------------------- formatAssistantErrorText

\* The lengths of the fixed texts of formatAssistantErrorText.
UnknownErrorChars == 41
OverflowTextChars == 101
RejectedPrefixChars == 22

\* The least length of an invalid_request_error body around its message:
\* "type":"invalid_request_error" and "message":"..." (157).
RejectedBodyChars == 42

\* An assistant message: its stopReason and its errorMessage, which is given
\* by the white space around it, its length once trimmed, whether
\* isContextOverflowError matches it and the length of the message of an
\* invalid_request_error body in it (0: the pattern of 156-158 does not
\* match).
AssistantMessages ==
    {m \in [stopReason : {"error", "stop"},
            pad : 0..1,
            len : ErrorLens \cup {0, 2 * MaxErrorChars},
            overflow : BOOLEAN,
            rejected : {0, 1, MaxErrorChars - RejectedPrefixChars,
                        MaxErrorChars - RejectedPrefixChars + 1,
                        MaxErrorChars + 1}] :
        /\ m.len = 0 => ~m.overflow
        /\ m.rejected > 0 => m.rejected + RejectedBodyChars <= m.len}

\* pi-embedded-helpers.ts:141-165: the kind and the length of the text.
formatAssistantErrorText(msg) ==
    IF msg.stopReason # "error" THEN [kind |-> "undefined", len |-> 0]
    ELSE IF msg.len = 0 THEN [kind |-> "unknown", len |-> UnknownErrorChars]
    ELSE IF msg.overflow
    THEN [kind |-> "overflow", len |-> OverflowTextChars]
    ELSE IF msg.rejected > 0
    THEN [kind |-> "rejected", len |-> RejectedPrefixChars + msg.rejected]
    ELSE [kind |-> "raw",
          len |-> IF msg.len > MaxErrorChars THEN MaxErrorChars + 1
                  ELSE msg.len]

InitFormat ==
    /\ QueueAtRest({"followup"})
    /\ call \in AssistantMessages
    /\ pc = "format"
    /\ store = EmptyStore
    /\ disk = EmptyStore
    /\ clock = 0
    /\ streamedPayloadKeys = {}
    /\ pendingStreamedPayloadKeys = {}
    /\ blockTasks = <<>>
    /\ toolTasks = <<>>
    /\ didStreamBlockReply = FALSE
    /\ outcome = NoOutcome
    /\ step = NoStep
    /\ AuxIdle

FormatError ==
    /\ pc = "format"
    /\ pc' = "done"
    /\ outcome' = formatAssistantErrorText(call)
    /\ step' = [NoStep EXCEPT !.op = "format"]
    /\ UNCHANGED <<call, store, disk, clock, streamedPayloadKeys,
                   pendingStreamedPayloadKeys, blockTasks,
                   didStreamBlockReply>>
    /\ UNCHANGED queueVars
    /\ UNCHANGED <<toolTasks, auxVars>>

NextFormat == FormatError

SpecFormat == InitFormat /\ [][NextFormat]_vars

\* ------------------------------------------------ model fallback (4.3)

\* An error message is given by the lower-case fragments it contains, which
\* is what the classifiers below look for.
AuthFragments ==
    {"invalid api key", "incorrect api key", "invalid token",
     "authentication", "unauthorized", "forbidden", "access denied",
     "401", "403"}

RateLimitFragments ==
    {"rate limit", "too many requests", "429", "exceeded your current quota"}

OverflowFragments ==
    {"request_too_large", "request exceeds the maximum size",
     "context length exceeded", "maximum context length"}

\* pi-embedded-helpers.ts:129-139
isContextOverflowError(raw) ==
    /\ raw # {}
    /\ \/ raw \cap OverflowFragments # {}
       \/ {"413", "too large"} \subseteq raw

\* pi-embedded-helpers.ts:176-182
isRateLimitErrorMessage(raw) == raw \cap RateLimitFragments # {}

isAuthErrorMessage_Any(raw) == TRUE

\* pi-embedded-helpers.ts:184-198
isAuthErrorMessage(raw) == raw # {} /\ raw \cap AuthFragments # {}

\* The class of a failure (4.3): auth, rate-limit, context-overflow, unknown.
ClassifyFailure(raw) ==
    IF isAuthErrorMessage(raw) THEN "auth"
    ELSE IF isRateLimitErrorMessage(raw) THEN "rate-limit"
    ELSE IF isContextOverflowError(raw) THEN "context-overflow"
    ELSE "unknown"

\* The failures a unit of work ends with: what the provider reported (kind)
\* and the message it threw.
ErrorSamples ==
    {[kind |-> "auth", raw |-> {"401", "unauthorized"}],
     [kind |-> "auth", raw |-> {"invalid api key"}],
     [kind |-> "rate-limit", raw |-> {"429", "too many requests"}],
     [kind |-> "rate-limit", raw |-> {"exceeded your current quota"}],
     [kind |-> "context-overflow", raw |-> {"413", "too large"}],
     [kind |-> "unknown", raw |-> {"socket hang up"}]}

\* The defaults of auth.cooldowns (types.ts:1315-1323), in hours.
DefaultBillingBackoffHours == 5
DefaultBillingMaxHours == 24

ResolveCooldowns_BaseAsMax(cfg) ==
    [base |-> UsageOr(cfg, "billingBackoffHours", DefaultBillingBackoffHours),
     max |-> UsageOr(cfg, "billingBackoffHours", DefaultBillingBackoffHours)]

\* AuthConfig.cooldowns (types.ts:1312-1328): the base backoff and its cap,
\* each with its default.
ResolveCooldowns(cfg) ==
    [base |-> UsageOr(cfg, "billingBackoffHours", DefaultBillingBackoffHours),
     max |-> UsageOr(cfg, "billingMaxHours", DefaultBillingMaxHours)]

\* Exponential backoff seeded by the base and capped at the maximum (4.3):
\* the cooldown of the n-th failure in a row.
BackoffHours(n, cooldowns) ==
    LET grown == cooldowns.base * (2 ^ (n - 1))
    IN IF grown > cooldowns.max THEN cooldowns.max ELSE grown

\* An AuthCooldownEntry: failureCount, cooldownUntil, and the backoff that
\* cooldownUntil was set with.
NoEntry == [failureCount |-> 0, cooldownUntil |-> 0, backoffHours |-> 0]

OnCooldown(entry, t) == entry.cooldownUntil > t

\* Auth and rate-limit failures increment the ledger entry (4.3).
EntryAfterFailure(entry, t, cooldowns) ==
    LET backoff == BackoffHours(entry.failureCount + 1, cooldowns)
    IN [failureCount |-> entry.failureCount + 1,
        cooldownUntil |-> t + backoff,
        backoffHours |-> backoff]

\* On success the failure counter of the candidate is cleared (4.3).
EntryAfterSuccess(entry) ==
    [entry EXCEPT !.failureCount = 0, !.backoffHours = 0]

\* The candidate the iteration comes to from position i: the first one that
\* is not under cooldown, or the last one of the list (4.3).
RECURSIVE NextCandidate(_, _, _, _)
NextCandidate(i, candidates, ledger, t) ==
    IF i >= Len(candidates) THEN Len(candidates)
    ELSE IF OnCooldown(ledger[candidates[i]], t)
    THEN NextCandidate(i + 1, candidates, ledger, t)
    ELSE i

RunOn_Primary(provider, primary) == primary

\* run: (provider, model) => runEmbeddedPiAgent({... provider, model ...})
\* (agent-runner.ts:237-253): the unit of work runs on the candidate it is
\* handed.
RunOn(provider, primary) == provider

Candidates == {"c1", "c2"}

CandidateLists == {<<"c1">>, <<"c1", "c2">>}

CooldownConfigs ==
    {EmptyStore,
     [f \in {"billingBackoffHours"} |-> 12],
     [f \in {"billingMaxHours"} |-> 8]}

\* The hours that pass between two logical calls.
ElapsedHours == {0, DefaultBillingBackoffHours, DefaultBillingMaxHours}

InitFallback ==
    /\ QueueAtRest({"followup"})
    /\ ReplyIdle
    /\ LaneIdle
    /\ TypingIdle
    /\ SideIdle
    /\ \E cfg \in CooldownConfigs, candidates \in CandidateLists :
          fallback =
             [NoFallback EXCEPT
                 !.cfg = cfg, !.candidates = candidates,
                 !.ledger = [c \in Candidates |-> NoEntry]]

\* runWithModelFallback is called (agent-runner.ts:233): one logical call
\* starts at the head of the candidate list.
FallbackBegin(elapsed) ==
    /\ fallback.pc \in {"idle", "done"}
    /\ fallback.calls < MaxCalls
    /\ fallback' =
          [fallback EXCEPT
              !.pc = "running", !.now = @ + elapsed, !.calls = @ + 1,
              !.next = 1, !.attempts = <<>>, !.skipped = {},
              !.result = NoFallback.result]
    /\ UNCHANGED <<lane, typing, shared, cli>>
    /\ UNCHANGED queueVars
    /\ UNCHANGED replyVars

\* The iteration comes to its next candidate and the unit of work runs on
\* it and ends: Succeeded, or a failure (4.3).
FallbackAttempt(ended) ==
    /\ fallback.pc = "running"
    /\ LET f == fallback
           n == Len(f.candidates)
           k == NextCandidate(f.next, f.candidates, f.ledger, f.now)
           candidate == f.candidates[k]
           executedOn == RunOn(candidate, f.candidates[1])
           ok == ended = Succeeded
           class == IF ok THEN "none" ELSE ClassifyFailure(ended.raw)
           cools == class \in {"auth", "rate-limit"}
           entry ==
               IF ok THEN EntryAfterSuccess(f.ledger[candidate])
               ELSE IF cools
               THEN EntryAfterFailure(f.ledger[candidate], f.now,
                                      ResolveCooldowns(f.cfg))
               ELSE f.ledger[candidate]
           ends == ok \/ ~cools \/ k = n
           attempt ==
               [index |-> k, candidate |-> candidate,
                executedOn |-> executedOn, error |-> ended, at |-> f.now,
                ledgerBefore |-> f.ledger, after |-> entry]
       IN
       fallback' =
          [f EXCEPT
              !.pc = IF ends THEN "done" ELSE "running",
              !.next = k + 1,
              !.ledger = [@ EXCEPT ![candidate] = entry],
              !.attempts = Append(@, attempt),
              !.skipped = @ \cup {f.candidates[j] : j \in f.next..(k - 1)},
              !.result =
                  IF ~ends THEN @
                  ELSE [status |-> IF ok THEN "ok" ELSE "failed",
                        error |-> ended, candidate |-> executedOn]]
    /\ UNCHANGED <<lane, typing, shared, cli>>
    /\ UNCHANGED queueVars
    /\ UNCHANGED replyVars

NextFallback ==
    \/ \E elapsed \in ElapsedHours : FallbackBegin(elapsed)
    \/ \E ended \in ErrorSamples \cup {Succeeded} :
          FallbackAttempt(ended)

SpecFallback == InitFallback /\ [][NextFallback]_vars

\* ------------------------------------------- global concurrency (5)

DefaultMaxConcurrent == 1

ResolveMaxConcurrent_Unbounded(cfg) ==
    UsageOr(cfg, "maxConcurrent", MaxRequests)

\* agent.maxConcurrent (types.ts:1486-1487): max concurrent agent runs
\* across all conversations, 1 by default.
ResolveMaxConcurrent(cfg) ==
    UsageOr(cfg, "maxConcurrent", DefaultMaxConcurrent)

LaneKeys == {"k1", "k2"}

LaneConfigs == {EmptyStore, [f \in {"maxConcurrent"} |-> 2]}

\* The runs of rs that hold a slot.
Slots(rs) == {r \in 1..Len(rs) : rs[r].stage = "executing"}

\* The runs of rs that were started beyond the cap and wait for a slot.
Waiting(rs) == {r \in 1..Len(rs) : rs[r].stage = "waiting"}

\* The oldest waiting run takes a slot when one is free (5: starts beyond
\* the cap are queued).
Promote(rs, max) ==
    IF Waiting(rs) # {} /\ Cardinality(Slots(rs)) < max
    THEN LET first ==
                 CHOOSE r \in Waiting(rs) : \A q \in Waiting(rs) : r <= q
         IN [rs EXCEPT ![first].stage = "executing"]
    ELSE rs

InitLane ==
    /\ QueueAtRest({"followup"})
    /\ ReplyIdle
    /\ FallbackIdle
    /\ TypingIdle
    /\ SideIdle
    /\ lane \in [cfg : LaneConfigs, mode : QueueMode, runs : {<<>>}]

\* Admission decided to start a run for key k (StartNow, or Interrupted in
\* interrupt mode, which frees the slot of the run it cancels): the run
\* executes if a slot is free and waits otherwise.
LaneStart(k) ==
    /\ Len(lane.runs) < MaxRequests
    /\ LET held ==
               {r \in 1..Len(lane.runs) :
                   /\ lane.runs[r].key = k
                   /\ lane.runs[r].stage \in {"executing", "waiting"}}
           freed ==
               [r \in 1..Len(lane.runs) |->
                   IF r \in held
                   THEN [lane.runs[r] EXCEPT !.stage = "stale"]
                   ELSE lane.runs[r]]
           max == ResolveMaxConcurrent(lane.cfg)
           stage ==
               IF Waiting(freed) = {} /\ Cardinality(Slots(freed)) < max
               THEN "executing" ELSE "waiting"
       IN
       /\ held # {} => lane.mode = "interrupt"
       /\ lane' =
             [lane EXCEPT
                 !.runs = Promote(Append(freed, [key |-> k, stage |-> stage]),
                                  max)]
    /\ UNCHANGED <<fallback, typing, shared, cli>>
    /\ UNCHANGED queueVars
    /\ UNCHANGED replyVars

\* The run r ends and gives its slot back.
LaneFinish(r) ==
    /\ r \in Slots(lane.runs)
    /\ lane' =
          [lane EXCEPT
              !.runs = Promote([@ EXCEPT ![r].stage = "done"],
                               ResolveMaxConcurrent(lane.cfg))]
    /\ UNCHANGED <<fallback, typing, shared, cli>>
    /\ UNCHANGED queueVars
    /\ UNCHANGED replyVars

NextLane ==
    \/ \E k \in LaneKeys : LaneStart(k)
    \/ \E r \in 1..MaxRequests : LaneFinish(r)

SpecLane == InitLane /\ [][NextLane]_vars

\* ------------------------------------------------ typing signals (4.4)

TypingMode == {"never", "instant", "message", "thinking"}

\* typing-mode (types.ts:1616)
DEFAULT_GROUP_TYPING_MODE == "message"

\* types.ts:1618-1628
resolveTypingMode(ctx) ==
    IF ctx.isHeartbeat THEN "never"
    ELSE IF ctx.configured # Undefined THEN ctx.configured
    ELSE IF ~ctx.isGroupChat \/ ctx.wasMentioned THEN "instant"
    ELSE DEFAULT_GROUP_TYPING_MODE

\* types.ts:1647
shouldStartImmediately(mode) == mode = "instant"

shouldStartOnText_Thinking(mode) ==
    mode = "message" \/ mode = "instant" \/ mode = "thinking"

\* types.ts:1648
shouldStartOnText(mode) == mode = "message" \/ mode = "instant"

\* types.ts:1649
shouldStartOnReasoning(mode) == mode = "thinking"

disabled_ModeOnly(mode, isHeartbeat) == mode = "never"

\* types.ts:1650
disabled(mode, isHeartbeat) == isHeartbeat \/ mode = "never"

\* The signals of a TypingSignaler: the calls each makes on the typing
\* controller, in order.
\* types.ts:1652-1655
signalRunStart(mode, isHeartbeat) ==
    IF disabled(mode, isHeartbeat) \/ ~shouldStartImmediately(mode)
    THEN <<>>
    ELSE <<"startTypingLoop">>

\* types.ts:1657-1666
signalTextDelta(mode, isHeartbeat) ==
    IF disabled(mode, isHeartbeat) THEN <<>>
    ELSE IF shouldStartOnText(mode) THEN <<"startTypingOnText">>
    ELSE IF shouldStartOnReasoning(mode) THEN <<"refreshTypingTtl">>
    ELSE <<>>

\* types.ts:1668-1672
signalReasoningDelta(mode, isHeartbeat) ==
    IF disabled(mode, isHeartbeat) \/ ~shouldStartOnReasoning(mode)
    THEN <<>>
    ELSE <<"startTypingLoop", "refreshTypingTtl">>

signalToolStart_OnText(mode, isHeartbeat) ==
    IF disabled(mode, isHeartbeat) \/ ~shouldStartOnText(mode)
    THEN <<>>
    ELSE <<"startTypingLoop">>

\* types.ts:1674-1678
signalToolStart(mode, isHeartbeat) ==
    IF disabled(mode, isHeartbeat) THEN <<>> ELSE <<"startTypingLoop">>

\* What a callback of runReplyAgent adds to the log: the signal it raises,
\* the controller calls of the signal, then the event it forwards to the
\* caller's callback (none: Undefined).
LogOf(signal, calls, forwarded) ==
    <<[kind |-> "signal", name |-> signal, by |-> signal]>>
    \o [i \in 1..Len(calls) |->
           [kind |-> "call", name |-> calls[i], by |-> signal]]
    \o (IF forwarded = Undefined THEN <<>>
        ELSE <<[kind |-> "forward", name |-> forwarded, by |-> signal]>>)

TypingContexts ==
    [configured : TypingMode \cup {Undefined}, isGroupChat : BOOLEAN,
     wasMentioned : BOOLEAN, isHeartbeat : BOOLEAN]

\* createTypingSignaler (agent-runner.ts:120-125) is handed the typing mode
\* of the call and opts.isHeartbeat.
InitTyping ==
    /\ QueueAtRest({"followup"})
    /\ ReplyIdle
    /\ FallbackIdle
    /\ LaneIdle
    /\ SideIdle
    /\ \E ctx \in TypingContexts, mode \in TypingMode :
          typing = [NoTyping EXCEPT !.pc = "model", !.ctx = ctx,
                                    !.mode = mode,
                                    !.isHeartbeat = ctx.isHeartbeat]

\* One streaming callback of the model call.
TypingEvent(signal, calls, forwarded) ==
    /\ typing.pc = "model"
    /\ typing.events < MaxSignals
    /\ typing' = [typing EXCEPT
                     !.events = @ + 1,
                     !.log = @ \o LogOf(signal, calls, forwarded)]
    /\ UNCHANGED <<fallback, lane, shared, cli>>
    /\ UNCHANGED queueVars
    /\ UNCHANGED replyVars

\* onPartialReply (agent-runner.ts:263-290)
OnPartialReply ==
    TypingEvent("textDelta", signalTextDelta(typing.mode, typing.isHeartbeat),
                "partial")

\* onReasoningStream (292-301): defined when the signaler starts on
\* reasoning or the caller listens; forwarded when the caller listens.
OnReasoningStream(listens) ==
    /\ shouldStartOnReasoning(typing.mode) \/ listens
    /\ TypingEvent("reasoningDelta",
                   signalReasoningDelta(typing.mode, typing.isHeartbeat),
                   IF listens THEN "reasoning" ELSE Undefined)

\* onAgentEvent, tool phase start (302-310)
OnToolStart ==
    TypingEvent("toolStart", signalToolStart(typing.mode, typing.isHeartbeat),
                Undefined)

\* The delivery task of a block (369-372)
OnBlockDelivery ==
    TypingEvent("textDelta", signalTextDelta(typing.mode, typing.isHeartbeat),
                "block")

\* The delivery task of a tool result (415-419)
OnToolResult ==
    TypingEvent("textDelta", signalTextDelta(typing.mode, typing.isHeartbeat),
                "tool")

\* The model call is over and the turn has payloads to return (566-575):
\* signalRunStart is raised when one of them is renderable.
TypingReturn(shouldSignalTyping) ==
    /\ typing.pc = "model"
    /\ typing' =
          [typing EXCEPT
              !.pc = "done",
              !.log =
                 IF shouldSignalTyping
                 THEN @ \o LogOf("runStart",
                                 signalRunStart(typing.mode,
                                                typing.isHeartbeat),
                                 Undefined)
                 ELSE @]
    /\ UNCHANGED <<fallback, lane, shared, cli>>
    /\ UNCHANGED queueVars
    /\ UNCHANGED replyVars

NextTyping ==
    \/ OnPartialReply
    \/ \E listens \in BOOLEAN : OnReasoningStream(listens)
    \/ OnToolStart
    \/ OnBlockDelivery
    \/ OnToolResult
    \/ \E shouldSignalTyping \in BOOLEAN : TypingReturn(shouldSignalTyping)

SpecTyping == InitTyping /\ [][NextTyping]_vars

\* ------------------------------------------- order of block deliveries

\* await typingSignals.signalTextDelta(...) of task i is over and
\* opts.onBlockReply(blockPayload) is called (370-371).  The tasks are not
\* chained: when the signal awaits the typing controller, a later task may
\* get there first; when it does not, the tasks resume in creation order.
TaskHandOver(i) ==
    /\ i \in 1..Len(blockTasks)
    /\ blockTasks[i].stage = "pending"
    /\ \/ \A j \in 1..(i - 1) : blockTasks[j].stage # "pending"
       \/ signalTextDelta(typing.mode, typing.isHeartbeat)
             = <<"startTypingOnText">>
    /\ blockTasks' = [blockTasks EXCEPT ![i].stage = "handed"]
    /\ step' = [NoStep EXCEPT !.op = "handover", !.storeBefore = store]
    /\ UNCHANGED <<call, pc, store, disk, clock, streamedPayloadKeys,
                   pendingStreamedPayloadKeys, didStreamBlockReply, outcome>>
    /\ UNCHANGED queueVars
    /\ UNCHANGED <<toolTasks, auxVars>>

\* opts.onBlockReply(blockPayload) of task i returned or threw (371-384).
HandedSettle(i, ok) == SettleFrom("handed", i, ok)

\* A turn with block streaming and a typing signaler: the delivery tasks
\* of its blocks, from the typing signal to the caller's callback.
InitOrder ==
    /\ ReplyCall({"followup"}, {TRUE}, {FALSE}, {FALSE})
    /\ ~call.isActive
    /\ FallbackIdle
    /\ LaneIdle
    /\ SideIdle
    /\ \E mode \in TypingMode, isHeartbeat \in BOOLEAN :
          typing = [NoTyping EXCEPT !.pc = "model", !.mode = mode,
                                    !.isHeartbeat = isHeartbeat]

NextOrder ==
    \/ ReplyAdmit(FALSE, TRUE)
    \/ \E payload \in {PA, PB, PR} : BlockReply(payload)
    \/ \E i \in 1..MaxBlocks : TaskHandOver(i)
    \/ \E i \in 1..MaxBlocks, ok \in BOOLEAN : HandedSettle(i, ok)
    \/ ModelEnds(NoError, TRUE)
    \/ \E finals \in {<<>>, <<PB>>}, meta \in Metas :
          ReplyReturn(finals, NoUsage, meta, FALSE, "none")

SpecOrder == InitOrder /\ [][NextOrder]_vars

\* ------------------------------------------- heartbeat token stripping

\* The reserved acknowledgement token: one element of a text.
HEARTBEAT_TOKEN == "HEARTBEAT_OK"

\* text?.includes("HEARTBEAT_OK") (267, 325, 397, 519)
IncludesToken(text) == \E i \in 1..Len(text) : text[i] = HEARTBEAT_TOKEN

\* stripHeartbeatToken(text, { mode: "message" }) (heartbeat.ts): the text
\* without the token, trimmed; shouldSkip when nothing is left.
stripHeartbeatToken(text) ==
    LET NotToken(c) == c # HEARTBEAT_TOKEN
        left == Trim(SelectSeq(text, NotToken))
    IN [text |-> left, didStrip |-> left # text, shouldSkip |-> left = <<>>]

SanitizePartial_Forward(payload, isHeartbeat) == <<payload>>

\* onPartialReply (266-289): what is forwarded for a partial reply.
SanitizePartial(payload, isHeartbeat) ==
    IF ~isHeartbeat /\ IncludesToken(payload.text)
    THEN LET stripped == stripHeartbeatToken(payload.text)
         IN IF stripped.shouldSkip /\ Len(payload.mediaUrls) = 0 THEN <<>>
            ELSE <<[payload EXCEPT !.text = stripped.text]>>
    ELSE <<payload>>

\* onBlockReply (324-355): the strip, the tagged payload whose mediaUrl is
\* mediaUrls[0], and the test for an empty text without media.
SanitizeBlock(payload, isHeartbeat) ==
    LET strips == ~isHeartbeat /\ IncludesToken(payload.text)
        stripped == stripHeartbeatToken(payload.text)
        hasMedia == Len(payload.mediaUrls) > 0
        text == IF strips THEN stripped.text ELSE payload.text
    IN IF strips /\ stripped.shouldSkip /\ ~hasMedia THEN <<>>
       ELSE IF text = <<>> /\ ~hasMedia THEN <<>>
       ELSE <<[payload EXCEPT
                  !.text = text,
                  !.mediaUrl =
                     IF hasMedia THEN payload.mediaUrls[1] ELSE Undefined]>>

\* onToolResult (396-419): what is forwarded for a tool result.
SanitizeToolResult(payload, isHeartbeat) ==
    IF ~isHeartbeat /\ IncludesToken(payload.text)
    THEN LET stripped == stripHeartbeatToken(payload.text)
         IN IF stripped.shouldSkip /\ Len(payload.mediaUrls) = 0 THEN <<>>
            ELSE <<[payload EXCEPT !.text = stripped.text]>>
    ELSE <<payload>>

\* sanitizedPayloads (510-530): what is left of one final payload.
SanitizeFinal(payload, isHeartbeat) ==
    IF isHeartbeat \/ ~IncludesToken(payload.text) THEN <<payload>>
    ELSE LET stripped == stripHeartbeatToken(payload.text)
             hasMedia ==
                 payload.mediaUrl # Undefined \/ Len(payload.mediaUrls) > 0
         IN IF stripped.shouldSkip /\ ~hasMedia THEN <<>>
            ELSE <<[payload EXCEPT !.text = stripped.text]>>

\* The texts of the events of a model call: the token alone, the token with
\* white space or with other text, and a text without the token.
TokenTexts ==
    {<<HEARTBEAT_TOKEN>>, <<" ", HEARTBEAT_TOKEN>>,
     <<HEARTBEAT_TOKEN, " ", "a">>, <<"a">>}

\* Streamed events carry a text and mediaUrls.
StreamedEvents ==
    {Payload(text, Undefined, mediaUrls, Undefined) :
        text \in TokenTexts, mediaUrls \in {<<>>, <<"m">>}}

\* Final payloads carry a mediaUrl as well.
FinalEvents ==
    StreamedEvents \cup
    {Payload(text, "m", <<>>, Undefined) : text \in TokenTexts}

InitHeartbeat ==
    /\ QueueAtRest({"followup"})
    /\ ReplyIdle
    /\ FallbackIdle
    /\ LaneIdle
    /\ SideIdle
    /\ \E isHeartbeat \in BOOLEAN :
          typing = [NoTyping EXCEPT !.pc = "model",
                                    !.isHeartbeat = isHeartbeat]

\* A callback of the model call is handed an event and forwards what is
\* left of it to the caller's callback (one event is followed per path).
Forward(path, given, forwarded) ==
    /\ typing.pc = "model"
    /\ \A i \in 1..Len(typing.log) : typing.log[i].path # path
    /\ typing' =
          [typing EXCEPT
              !.events = @ + 1,
              !.log = Append(@, [path |-> path, given |-> given,
                                 forwarded |-> forwarded])]
    /\ UNCHANGED <<fallback, lane, shared, cli>>
    /\ UNCHANGED queueVars
    /\ UNCHANGED replyVars

ForwardPartial(payload) ==
    Forward("partial", payload, SanitizePartial(payload, typing.isHeartbeat))

ForwardBlock(payload) ==
    Forward("block", payload, SanitizeBlock(payload, typing.isHeartbeat))

ForwardToolResult(payload) ==
    Forward("tool", payload, SanitizeToolResult(payload, typing.isHeartbeat))

\* The model call ended with one final payload, which is sanitized (510).
ReturnFinal(payload) ==
    /\ typing.pc = "model"
    /\ typing' =
          [typing EXCEPT
              !.pc = "done",
              !.log = Append(@, [path |-> "final", given |-> payload,
                                 forwarded |->
                                    SanitizeFinal(payload,
                                                  typing.isHeartbeat)])]
    /\ UNCHANGED <<fallback, lane, shared, cli>>
    /\ UNCHANGED queueVars
    /\ UNCHANGED replyVars

NextHeartbeat ==
    \/ \E payload \in StreamedEvents : ForwardPartial(payload)
    \/ \E payload \in StreamedEvents : ForwardBlock(payload)
    \/ \E payload \in StreamedEvents : ForwardToolResult(payload)
    \/ \E payload \in FinalEvents : ReturnFinal(payload)

SpecHeartbeat == InitHeartbeat /\ [][NextHeartbeat]_vars

\* ------------------------------------------- the catch of the model call

\* What /context.*overflow|too large|context window/i (438) finds in a
\* message, as fragments: "context overflow" stands for a message with
\* "context", then any text, then "overflow".
CatchOverflowFragments == {"context overflow", "too large", "context window"}

\* What /function call turn comes immediately after/i (440) finds.
CorruptionFragment == "function call turn comes immediately after"

\* The messages a model call may throw: at most two of the fragments the
\* classifier and the catch look for, or a text that neither knows.
ThrownFragments ==
    OverflowFragments \cup CatchOverflowFragments
       \cup {"413", CorruptionFragment, "socket hang up"}

ThrownMessages ==
    {raw \in SUBSET ThrownFragments : Cardinality(raw) \in {1, 2}}

\* agent-runner.ts:436-440: the message of the error and the two tests.
CaughtMessage(raw, len) ==
    [len |-> len,
     overflow |-> raw \cap CatchOverflowFragments # {},
     corruption |-> CorruptionFragment \in raw]

\* A call whose model call will throw the message raw: the fallback
\* coordinator surfaces the error of its candidate as it is.
InitOverflow ==
    /\ ReplyCall({"followup"}, {FALSE}, BOOLEAN, {FALSE})
    /\ ~call.isActive
    /\ LaneIdle
    /\ TypingIdle
    /\ SideIdle
    /\ \E raw \in ThrownMessages :
          fallback =
             [NoFallback EXCEPT
                 !.result = [status |-> "failed",
                             error |-> [kind |-> ClassifyFailure(raw),
                                        raw |-> raw],
                             candidate |-> "none"]]

\* runWithModelFallback throws and the catch builds the failure payload.
ModelThrows(len, saveOk) ==
    ModelEnds(CaughtMessage(fallback.result.error.raw, len), saveOk)

NextOverflow ==
    \/ ReplyAdmit(FALSE, TRUE)
    \/ \E len \in {1, MaxErrorChars}, saveOk \in BOOLEAN :
          ModelThrows(len, saveOk)

SpecOverflow == InitOverflow /\ [][NextOverflow]_vars

\* ------------------------------------------- one store file, several keys

\* The conversation keys whose sessions one store file holds.
StoreKeys == {"A", "B"}

\* What a result may carry when the session is updated (577-628).
SharedUsages == {NoUsage, [input |-> 100, output |-> 50]}

\* loadStore(path): the caller reads the file and hands the call the map it
\* read as sessionStore.
loadSessionStore(file) == file

\* saveStore(path, map): the file holds the map it was given.
saveSessionStore(file, sessionStore) == sessionStore

\* The store file holds a session for every key; no call is under way.
InitShared ==
    /\ QueueAtRest({"followup"})
    /\ ReplyIdle
    /\ FallbackIdle
    /\ LaneIdle
    /\ TypingIdle
    /\ CliIdle
    /\ shared = [NoShared EXCEPT
                    !.file = [k \in StoreKeys |-> PriorEntry(FALSE)]]

SharedStep(file, calls, write) ==
    /\ shared' = [file |-> file, calls |-> calls,
                  writes |-> IF write = <<>> THEN shared.writes
                             ELSE Append(shared.writes, write[1])]
    /\ UNCHANGED <<queueVars, replyVars, fallback, lane, typing, cli>>

\* runReplyAgent is called for key k with the store its caller loaded.
SharedCall(k) ==
    /\ k \notin DOMAIN shared.calls
    /\ Len(shared.writes) < MaxCalls
    /\ SharedStep(shared.file,
                  [j \in DOMAIN shared.calls \cup {k} |->
                      IF j = k THEN loadSessionStore(shared.file)
                      ELSE shared.calls[j]],
                  <<>>)

\* A write of the call for key k: its sessionStore holds the new entry of k
\* and is saved as a whole.
SharedWrite(k, op, entry) ==
    LET sessionStore == [shared.calls[k] EXCEPT ![k] = entry]
        file == saveSessionStore(shared.file, sessionStore)
    IN SharedStep(file, [shared.calls EXCEPT ![k] = sessionStore],
                  <<[key |-> k, op |-> op, before |-> shared.file,
                     after |-> file]>>)

\* The request is handed to the backlog while a run is active: updatedAt is
\* touched and the store is saved (190-196).
SharedTouch(k) ==
    /\ k \in DOMAIN shared.calls
    /\ Len(shared.writes) < MaxCalls
    /\ SharedWrite(k, "touch",
                   TouchEntry(shared.calls[k][k], Len(shared.writes) + 1))

\* The session update of a turn that returns payloads (577-628).
SharedUpdate(k, usage, meta) ==
    /\ k \in DOMAIN shared.calls
    /\ Len(shared.writes) < MaxCalls
    /\ SharedWrite(k, "update",
                   IF hasNonzeroUsage(usage)
                   THEN EntryWithUsage(shared.calls[k][k], usage, meta,
                                       Len(shared.writes) + 1)
                   ELSE EntryWithModel(shared.calls[k][k], meta))

\* The call for key k returns.
SharedReturn(k) ==
    /\ k \in DOMAIN shared.calls
    /\ SharedStep(shared.file,
                  [j \in DOMAIN shared.calls \ {k} |-> shared.calls[j]],
                  <<>>)

NextShared ==
    \/ \E k \in StoreKeys : SharedCall(k)
    \/ \E k \in StoreKeys : SharedTouch(k)
    \/ \E k \in StoreKeys, usage \in SharedUsages, meta \in Metas :
          SharedUpdate(k, usage, meta)
    \/ \E k \in StoreKeys : SharedReturn(k)

SpecShared == InitShared /\ [][NextShared]_vars

\* ----------------------------------------------------- CLI runs per key

\* The CLI backends that are configured.
CliBackends == {"claude-cli", "codex-cli"}

\* CliBackendConfig.serialize (types.ts:1403-1404) is optional.
CliBackendConfigs ==
    {EmptyStore} \cup {[f \in {"serialize"} |-> b] : b \in BOOLEAN}

\* cli-runner.ts:548  backend.serialize ?? true
Serialize(backend) == UsageOr(backend, "serialize", TRUE)

\* cli-runner.ts:549-551: the backend id, and the run id with it when the
\* backend does not serialize (runId 0: the key carries no run id).
CliQueueKey(backend, id, runId) ==
    [id |-> id, runId |-> IF Serialize(backend) THEN 0 ELSE runId]

\* A promise has settled.
Settled(state) == state \in {"fulfilled", "rejected"}

\* CLI_RUN_QUEUE.get(key) ?? Promise.resolve() (36): the tracked promise of
\* the task last enqueued for the key, 0 for the resolved promise.
PriorOf(queue, key) == IF key \in DOMAIN queue THEN queue[key] ELSE 0

\* The .finally of a task (38-42): the entry of the key is deleted if it is
\* still the tracked promise of this task.
QueueAfterSettle(queue, key, i) ==
    IF key \in DOMAIN queue /\ queue[key] = i
    THEN [j \in DOMAIN queue \ {key} |-> queue[j]]
    ELSE queue

InitCli ==
    /\ QueueAtRest({"followup"})
    /\ ReplyIdle
    /\ FallbackIdle
    /\ LaneIdle
    /\ TypingIdle
    /\ SharedIdle
    /\ \E cfg \in [CliBackends -> CliBackendConfigs] :
          cli = [NoCli EXCEPT !.cfg = cfg]

CliStep(next) ==
    /\ cli' = next
    /\ UNCHANGED <<queueVars, replyVars, fallback, lane, typing, shared>>

\* runCliAgent reaches enqueueCliRun (554, 35-45): the task is chained behind
\* the tracked promise of its key, which thereby has a rejection handler
\* (prior.catch), and its own tracked promise takes the key's entry.
EnqueueCliRun(id) ==
    /\ Len(cli.tasks) < MaxCalls
    /\ LET runId == Len(cli.tasks) + 1
           key == CliQueueKey(cli.cfg[id], id, runId)
           prior == PriorOf(cli.queue, key)
       IN CliStep([cli EXCEPT
                      !.tasks =
                          Append(@, [key |-> key, prior |-> prior,
                                     state |-> "waiting"]),
                      !.queue =
                          [k \in DOMAIN @ \cup {key} |->
                              IF k = key THEN runId ELSE @[k]]])

\* prior.catch(() => undefined).then(task) (37): the task is called once the
\* prior promise has settled, fulfilled or rejected.
CliTaskStarts(i) ==
    /\ i \in 1..Len(cli.tasks)
    /\ cli.tasks[i].state = "waiting"
    /\ cli.tasks[i].prior # 0 => Settled(cli.tasks[cli.tasks[i].prior].state)
    /\ CliStep([cli EXCEPT !.tasks[i].state = "running"])

\* The task settles: chained settles with its outcome, which the caller
\* awaits (554); the .finally callback runs (38-42) and tracked settles with
\* the same outcome.  A rejected tracked promise that no later enqueue has
\* chained a handler to is an unhandled rejection of the process.
CliTaskSettles(i, ok) ==
    /\ i \in 1..Len(cli.tasks)
    /\ cli.tasks[i].state = "running"
    /\ LET key == cli.tasks[i].key
           chainedOn == PriorOf(cli.queue, key) # i
       IN CliStep([cli EXCEPT
                      !.tasks[i].state =
                          IF ok THEN "fulfilled" ELSE "rejected",
                      !.queue = QueueAfterSettle(@, key, i),
                      !.unhandled =
                          IF ~ok /\ ~chainedOn THEN @ \cup {i} ELSE @])

NextCli ==
    \/ \E id \in CliBackends : EnqueueCliRun(id)
    \/ \E i \in 1..MaxCalls : CliTaskStarts(i)
    \/ \E i \in 1..MaxCalls, ok \in BOOLEAN : CliTaskSettles(i, ok)

SpecCli == InitCli /\ [][NextCli]_vars

\* ----------------------------------------------------------- properties

Mode == settings.mode

LastRun == runs[Len(runs)]

\* The runs of key k that execute their model call and were not cancelled.
Executing(k) ==
    {r \in 1..Len(runs) :
        runs[r].key = k /\ runs[r].pc = "model" /\ ~runs[r].stale}

\* The last operation was a request for a key that a run was holding.
AdmittedWhileActive == last.op = "admit" /\ last.wasActive

\* The last request went to the backlog append under the cap / drop rule.
HandedToBacklog ==
    /\ AdmittedWhileActive
    /\ Mode \in CapModes
    /\ ~(Mode = "steer" /\ last.steered)

StartedNoRun == Len(runs) = last.runsBefore

IsAscending(s) == \A i, j \in 1..Len(s) : i < j => s[i] < s[j]

C2_DrainOnEveryExit ==
    last.op = "finish" =>
        /\ runs[last.run].pc = "done"
        /\ last.markedComplete
        /\ last.drained

\* C3: in mode queue with drop policy old the backlog never holds more than
\* cap entries, and a request admitted while a run is active becomes the last
\* entry, the oldest entry being discarded when the backlog was full.
C3_QueueCapDropOld ==
    (Mode = "queue" /\ settings.drop = "old") =>
        \A k \in Keys :
            /\ Len(backlog[k]) <= settings.cap
            /\ (AdmittedWhileActive /\ last.key = k) =>
                 /\ last.decision = "Enqueued"
                 /\ StartedNoRun
                 /\ backlog[k] =
                      IF Len(last.backlogBefore) < settings.cap
                      THEN last.backlogBefore \o <<Single(last.id)>>
                      ELSE Tail(last.backlogBefore) \o <<Single(last.id)>>

C3_Witness ==
    /\ Mode = "queue" /\ settings.drop = "old" /\ settings.cap = 2
    /\ AdmittedWhileActive
    /\ Len(last.backlogBefore) = 2
    /\ backlog[last.key] = <<last.backlogBefore[2], Single(last.id)>>

\* C4: with drop policy new, a request handed to a full backlog is Dropped
\* and leaves the backlog as it was, and no dropped request is ever part of
\* a backlog entry or of a turn.
C4_DropNew ==
    settings.drop = "new" =>
        /\ (HandedToBacklog /\ Len(last.backlogBefore) >= settings.cap) =>
              /\ last.decision = "Dropped"
              /\ backlog[last.key] = last.backlogBefore
              /\ StartedNoRun
        /\ \A id \in 1..Len(decisions) :
              decisions[id].decision = "Dropped" =>
                 /\ \A r \in 1..Len(runs) :
                       id \notin SeqToSet(runs[r].entry.prompts)
                 /\ \A k \in Keys : id \notin SeqToSet(AllPrompts(backlog[k]))

C4_Witness ==
    /\ settings.drop = "new" /\ settings.cap = 2
    /\ \E id \in 1..Len(decisions) : decisions[id].decision = "Dropped"
    /\ last.op = "finish" /\ last.drained
    /\ last.backlogBefore # <<>>

\* C5: with drop policy summarize, a request handed to a full backlog leaves
\* one merged entry that holds every earlier backlog prompt and the new one,
\* in arrival order (for followup with cap 2: the three queued prompts).
C5_SummarizeCollapses ==
    (settings.drop = "summarize" /\ HandedToBacklog
        /\ Len(last.backlogBefore) >= settings.cap) =>
        /\ Len(backlog[last.key]) = 1
        /\ backlog[last.key][1].kind = "summary"
        /\ backlog[last.key][1].prompts =
              AllPrompts(last.backlogBefore) \o <<last.id>>
        /\ IsAscending(backlog[last.key][1].prompts)
        /\ last.decision = "Enqueued"
        /\ StartedNoRun

C5_Witness ==
    /\ Mode = "followup" /\ settings.drop = "summarize" /\ settings.cap = 2
    /\ HandedToBacklog
    /\ Len(last.backlogBefore) = 2
    /\ Len(backlog[last.key]) = 1
    /\ Len(backlog[last.key][1].prompts) = 3

\* The case of C6: mode steer, the run streams, the injection succeeds.
SteerInjected ==
    /\ last.op = "admit" /\ Mode = "steer"
    /\ last.wasActive /\ last.wasStreaming /\ last.steered

\* C6 as stated: a successful steer injection is Injected, creates no backlog
\* entry, starts no run and leaves the Session record, updatedAt included,
\* unchanged.
C6_SteerLeavesSession ==
    SteerInjected =>
        /\ last.decision = "Injected"
        /\ backlog[last.key] = last.backlogBefore
        /\ StartedNoRun
        /\ sessions[last.key] = last.sessionBefore

\* C6 amended: a successful steer injection is Injected, creates no backlog
\* entry and starts no run; of the Session record it changes updatedAt alone,
\* which it sets to the current time when the session is known.
C6_SteerTouchesUpdatedAt ==
    SteerInjected =>
        /\ last.decision = "Injected"
        /\ backlog[last.key] = last.backlogBefore
        /\ StartedNoRun
        /\ last.id \in SeqToSet(runs[LiveRun(runs, last.key)].injected)
        /\ sessions[last.key] =
              IF last.sessionBefore.known
              THEN [last.sessionBefore EXCEPT !.updatedAt = now]
              ELSE last.sessionBefore
        /\ last.sessionBefore.known =>
              sessions[last.key].updatedAt > last.sessionBefore.updatedAt

C6_Witness ==
    /\ SteerInjected
    /\ last.sessionBefore.known
    /\ sessions[last.key].updatedAt = now

\* The case of C7: mode steer, a run is active, and the request was not
\* injected (the injection failed or the run does not stream).
SteerFallback ==
    /\ last.op = "admit" /\ Mode = "steer"
    /\ last.wasActive /\ ~last.steered

\* C7 as stated: the request is appended to the backlog (Enqueued) and starts
\* no second run.
C7_SteerFallbackAppends ==
    SteerFallback =>
        /\ last.decision = "Enqueued"
        /\ backlog[last.key] # <<>>
        /\ last.id \in
             SeqToSet(backlog[last.key][Len(backlog[last.key])].prompts)
        /\ StartedNoRun

\* C7 amended: the request goes to the backlog under the cap / drop rule and
\* starts no second run: it is Dropped, the backlog unchanged, exactly when
\* the backlog is full and the drop policy is new, and otherwise it is
\* Enqueued and part of the last backlog entry.
C7_SteerFallbackEnqueues ==
    SteerFallback =>
        /\ StartedNoRun
        /\ Cardinality(Executing(last.key)) = 1
        /\ IF settings.drop = "new" /\ Len(last.backlogBefore) >= settings.cap
           THEN /\ last.decision = "Dropped"
                /\ backlog[last.key] = last.backlogBefore
           ELSE /\ last.decision = "Enqueued"
                /\ backlog[last.key] # <<>>
                /\ last.id \in
                     SeqToSet(backlog[last.key][Len(backlog[last.key])].prompts)

C7_Witness ==
    /\ SteerFallback
    /\ last.wasStreaming
    /\ last.decision = "Enqueued"
    /\ Len(backlog[last.key]) = 2

\* C8: a request admitted in interrupt mode while a run is active starts at
\* once, and the interrupted run delivers no block and no final payload from
\* then on.
C8_NoStaleOutput ==
    /\ (AdmittedWhileActive /\ Mode = "interrupt") =>
          /\ Len(runs) = last.runsBefore + 1
          /\ LastRun = NewRun(last.key, Single(last.id))
    /\ \A r \in 1..Len(runs) : ~runs[r].staleOutput

\* C9: within one key no request that has started is younger than a request
\* that is still pending, and the turns start in the order of their requests
\* (dropped and injected requests are in neither).
C9_ArrivalOrder ==
    \A k \in Keys :
        /\ \A r \in 1..Len(runs) :
              runs[r].key = k =>
                 \A b \in SeqToSet(runs[r].entry.prompts) :
                    \A a \in SeqToSet(AllPrompts(backlog[k])) : b < a
        /\ \A r1, r2 \in 1..Len(runs) :
              (r1 < r2 /\ runs[r1].key = k /\ runs[r2].key = k) =>
                 \A a \in SeqToSet(runs[r1].entry.prompts) :
                    \A b \in SeqToSet(runs[r2].entry.prompts) : a < b

\* C10: the drain called when a turn returns starts the oldest backlog entry
\* if there is one; with an empty backlog it starts nothing and the key is
\* free, and a request for a free key is admitted as StartNow.
C10_DrainNext ==
    /\ (last.op = "finish" /\ last.drained /\ last.backlogBefore # <<>>) =>
          /\ backlog[last.key] = Tail(last.backlogBefore)
          /\ Len(runs) = last.runsBefore + 1
          /\ LastRun = NewRun(last.key, Head(last.backlogBefore))
    /\ (last.op = "finish" /\ last.drained /\ last.backlogBefore = <<>>) =>
          /\ backlog[last.key] = <<>>
          /\ StartedNoRun
          /\ ~runs[last.run].isActive
          /\ last.wasActive => ~IsActive(runs, last.key)
    /\ (last.op = "admit" /\ ~last.wasActive) =>
          /\ last.decision = "StartNow"
          /\ Len(runs) = last.runsBefore + 1
          /\ LastRun = NewRun(last.key, Single(last.id))
          /\ backlog[last.key] = last.backlogBefore

C10_Witness ==
    /\ last.op = "finish" /\ last.drained
    /\ Len(last.backlogBefore) = 2
    /\ LastRun.entry = Head(last.backlogBefore)
    /\ LastRun.isActive

\* The dedup key of a payload: its trimmed text, its media list and the
\* message it replies to.
DedupKey(p) ==
    <<Trim(p.text),
      IF p.mediaUrls # <<>> THEN p.mediaUrls
      ELSE IF p.mediaUrl # Undefined THEN <<p.mediaUrl>> ELSE <<>>,
      p.replyToId>>

\* The delivery callback was invoked for block i and has not failed.
InFlightOrDelivered(i) == blockTasks[i].stage \in {"pending", "delivered"}

DeliveredBlocks ==
    {i \in 1..Len(blockTasks) : blockTasks[i].stage = "delivered"}

DeliveredKeys == {DedupKey(blockTasks[i].payload) : i \in DeliveredBlocks}

ReturnedWithKey(K) ==
    {i \in 1..Len(outcome.payloads) : DedupKey(outcome.payloads[i]) = K}

\* C11: within one run no two blocks with the same dedup key are both
\* delivered or in flight: the delivery callback is never invoked for a block
\* whose key was delivered or has a delivery in flight.
C11_NoDuplicateBlock ==
    \A i, j \in 1..Len(blockTasks) :
        (i # j /\ DedupKey(blockTasks[i].payload)
                     = DedupKey(blockTasks[j].payload)) =>
            ~(InFlightOrDelivered(i) /\ InFlightOrDelivered(j))

C11_Witness ==
    \E i, j \in 1..Len(blockTasks) :
        /\ i < j
        /\ blockTasks[i].payload # blockTasks[j].payload
        /\ DedupKey(blockTasks[i].payload) = DedupKey(blockTasks[j].payload)
        /\ blockTasks[i].stage = "delivered"
        /\ blockTasks[j].stage = "skipped"

\* C12: when a run with block streaming enabled delivered a block with key K
\* and its final payloads hold a payload with key K, the final payload is not
\* returned and one payload with key K is delivered overall.
C12_DedupRoundTrip ==
    (pc = "done" /\ call.blockStreamingEnabled) =>
        \A K \in DeliveredKeys :
            (\E f \in 1..Len(step.finals) : DedupKey(step.finals[f]) = K) =>
                /\ ReturnedWithKey(K) = {}
                /\ Cardinality({i \in DeliveredBlocks :
                                   DedupKey(blockTasks[i].payload) = K}) = 1

C12_Witness ==
    /\ pc = "done" /\ call.blockStreamingEnabled
    /\ outcome.exit = "nothing"
    /\ \E i \in DeliveredBlocks, f \in 1..Len(step.finals) :
          /\ blockTasks[i].payload # step.finals[f]
          /\ DedupKey(blockTasks[i].payload) = DedupKey(step.finals[f])

NotDelivered(p) == DedupKey(p) \notin DeliveredKeys

\* C13: when block streaming delivered a block, the payloads returned are
\* the final payloads whose key is the key of no delivered block, those and
\* no others.
C13_FinalMinusStreamed ==
    (pc = "done" /\ step.op = "return" /\ call.blockStreamingEnabled
        /\ DeliveredBlocks # {}) =>
        outcome.payloads = SelectSeq(step.finals, NotDelivered)

\* The call ran a turn for a key that had a Session when it started, and the
\* turn completed: it returned payloads or found nothing to send.
TurnCompleted ==
    /\ pc = "done" /\ step.op = "return"
    /\ outcome.exit \in {"payloads", "nothing"}
    /\ call.keyed /\ ReplyKey \in DOMAIN call.storeAtStart

SessionAtStart == call.storeAtStart[ReplyKey]

\* C14: after a run that completes with usage {input: 100, output: 50} for a
\* key that has a Session, totalTokens is 150 and updatedAt is later than
\* before the run.
C14_TotalIsInputPlusOutput ==
    (TurnCompleted /\ step.usage = [input |-> 100, output |-> 50]) =>
        /\ store[ReplyKey].totalTokens = 150
        /\ store[ReplyKey].updatedAt > SessionAtStart.updatedAt

\* C15: a completed run without nonzero usage refreshes model, modelProvider
\* and contextTokens of the Session and keeps its inputTokens, outputTokens
\* and totalTokens.
C15_RefreshKeepsCounters ==
    (TurnCompleted /\ ~(\E f \in DOMAIN step.usage : step.usage[f] > 0)) =>
        /\ store[ReplyKey].model = step.meta.model
        /\ store[ReplyKey].modelProvider = step.meta.provider
        /\ store[ReplyKey].contextTokens = step.meta.contextTokens
        /\ store[ReplyKey].inputTokens = SessionAtStart.inputTokens
        /\ store[ReplyKey].outputTokens = SessionAtStart.outputTokens
        /\ store[ReplyKey].totalTokens = SessionAtStart.totalTokens

\* C16: a run that completes with nonzero usage writes the token counters
\* and the model info of its Session, whatever it returns.
C16_UsageAlwaysRecorded ==
    (TurnCompleted /\ (\E f \in DOMAIN step.usage : step.usage[f] > 0)) =>
        /\ store[ReplyKey].inputTokens =
              IF "input" \in DOMAIN step.usage THEN step.usage.input ELSE 0
        /\ store[ReplyKey].outputTokens =
              IF "output" \in DOMAIN step.usage THEN step.usage.output ELSE 0
        /\ store[ReplyKey].model = step.meta.model
        /\ store[ReplyKey].modelProvider = step.meta.provider

\* The model call failed with the corruption signature and the session key,
\* the store and the store path are known.
CorruptionCase ==
    /\ step.op = "model" /\ step.message.corruption
    /\ call.keyed /\ call.storePath

\* C17: in the corruption case the Session entry of the key is removed from
\* the store and the store is saved (a save that fails is logged, not
\* raised), one apology payload is returned, nothing is raised and the
\* follow-up drain is called.
C17_CorruptionRecovery ==
    CorruptionCase =>
        /\ ReplyKey \notin DOMAIN store
        /\ step.saveOk => disk = store
        /\ pc = "done"
        /\ outcome.exit = "failure"
        /\ outcome.failure = [kind |-> "corruption", raw |-> 0]
        /\ outcome.payloads = <<>>
        /\ outcome.markedComplete
        /\ outcome.drained

C17_Witness ==
    /\ CorruptionCase
    /\ ReplyKey \in DOMAIN step.storeBefore
    /\ ReplyKey \in DOMAIN call.storeAtStart
    /\ step.saveOk
    /\ ReplyKey \notin DOMAIN disk
    /\ outcome.drained

\* C18: the payload returned for a failed model call carries at most 600
\* characters of the provider's error message.
C18_FailureTextCapped ==
    (step.op = "model" /\ outcome.exit = "failure") =>
        outcome.failure.raw <= MaxErrorChars

\* C19: for an assistant message with stopReason error the text of
\* formatAssistantErrorText has at most 600 characters, whatever the length
\* and the shape of the error message.
C19_ErrorTextAtMost600 ==
    (step.op = "format" /\ call.stopReason = "error") =>
        outcome.len <= MaxErrorChars

\* C20: runReplyAgent never ends by raising an exception: every call ends in
\* a returned payload or in no payload.
C20_NeverRaises ==
    pc = "done" => outcome.exit \in {"failure", "payloads", "nothing"}

\* ------------------------------------------------- deliveries that throw

\* The block task created last was handed to delivery unless a block of its
\* key is in flight or was delivered: a delivery that threw does not count.
LaterBlockGoesOn ==
    LET n == Len(blockTasks)
        Live(i) ==
            /\ blockTasks[i].key = blockTasks[n].key
            /\ blockTasks[i].stage \in {"pending", "delivered"}
    IN blockTasks[n].stage = "skipped" <=> \E i \in 1..(n - 1) : Live(i)

FailedDelivery ==
    \/ \E i \in 1..Len(blockTasks) : blockTasks[i].stage = "failed"
    \/ \E i \in 1..Len(toolTasks) : toolTasks[i] = "failed"

Attempts == fallback.attempts

LastAttempt == Attempts[Len(Attempts)]

LastCandidate == fallback.candidates[Len(fallback.candidates)]

\* The candidate the unit of work ran on was under cooldown at attempt a.
RanUnderCooldown(a) ==
    OnCooldown(Attempts[a].ledgerBefore[Attempts[a].executedOn],
               Attempts[a].at)

\* C22: the coordinator tries the candidates in list order and never runs
\* the unit of work on a candidate whose cooldown has not elapsed unless it
\* is the last one of the list; every candidate passed over was skipped for
\* its cooldown; a logical call that ended made at least one attempt.
C22_OrderAndCooldownSkip ==
    /\ \A a \in 1..Len(Attempts) :
          /\ Attempts[a].executedOn = fallback.candidates[Attempts[a].index]
          /\ RanUnderCooldown(a) => Attempts[a].executedOn = LastCandidate
          /\ \A b \in 1..(a - 1) : Attempts[b].index < Attempts[a].index
          /\ \A j \in 1..(Attempts[a].index - 1) :
                \/ \E b \in 1..(a - 1) : Attempts[b].index = j
                \/ /\ fallback.candidates[j] \in fallback.skipped
                   /\ OnCooldown(
                         Attempts[a].ledgerBefore[fallback.candidates[j]],
                         Attempts[a].at)
    /\ LastCandidate \notin fallback.skipped
    /\ fallback.pc = "done" => Len(Attempts) >= 1

\* The first candidate was skipped for its cooldown and the last one ran
\* although it was under cooldown too.
C22_Witness ==
    /\ fallback.pc = "done"
    /\ fallback.skipped = {"c1"}
    /\ Len(Attempts) = 1
    /\ Attempts[1].executedOn = "c2"
    /\ RanUnderCooldown(1)

Retried(a) == Attempts[a].error.kind \in {"auth", "rate-limit"}

\* C23: after an auth or rate-limit failure a cooldown is recorded for the
\* failed candidate and, when another candidate remains, the same logical
\* call goes on to a later candidate; such a failure is the result of the
\* call only when it is the failure of the last candidate.
C23_AuthRateLimitFallsThrough ==
    /\ \A a \in 1..Len(Attempts) :
          Retried(a) =>
             /\ Attempts[a].after.failureCount =
                   Attempts[a].ledgerBefore[Attempts[a].candidate].failureCount
                   + 1
             /\ Attempts[a].after.cooldownUntil > Attempts[a].at
             /\ Attempts[a].executedOn = Attempts[a].candidate
             /\ Attempts[a].index < Len(fallback.candidates) =>
                   IF a = Len(Attempts)
                   THEN /\ fallback.pc = "running"
                        /\ fallback.result.status = "none"
                   ELSE /\ Attempts[a + 1].index > Attempts[a].index
                        /\ Attempts[a + 1].executedOn =
                              fallback.candidates[Attempts[a + 1].index]
    /\ (fallback.result.status = "failed" /\ Retried(Len(Attempts))) =>
          LastAttempt.index = Len(fallback.candidates)

\* Candidate 1 of 2 failed with an auth error and candidate 2 was attempted
\* in the same logical call and succeeded.
C23_Witness ==
    /\ fallback.pc = "done"
    /\ Len(Attempts) = 2
    /\ Attempts[1].error.kind = "auth"
    /\ Attempts[1].candidate = "c1"
    /\ fallback.ledger["c1"].cooldownUntil > fallback.now
    /\ Attempts[2].executedOn = "c2"
    /\ fallback.result.status = "ok"

Surfaced(a) == Attempts[a].error.kind \in {"context-overflow", "unknown"}

\* C24: a context-overflow or unknown failure ends the logical call at once:
\* it is the result, no later candidate is attempted and no cooldown is
\* recorded.
C24_OverflowUnknownSurfaced ==
    \A a \in 1..Len(Attempts) :
       Surfaced(a) =>
          /\ a = Len(Attempts)
          /\ fallback.pc = "done"
          /\ fallback.result.status = "failed"
          /\ fallback.result.error = Attempts[a].error
          /\ fallback.ledger = Attempts[a].ledgerBefore

\* Candidate 1 of 2 failed with an unknown error while candidate 2 was not
\* under cooldown.
C24_Witness ==
    /\ fallback.pc = "done"
    /\ Len(fallback.candidates) = 2
    /\ Len(Attempts) = 1
    /\ Attempts[1].candidate = "c1"
    /\ Attempts[1].error.kind = "unknown"
    /\ ~OnCooldown(fallback.ledger["c2"], fallback.now)

\* C25: a logical call without a success ends with the failure of the last
\* attempt, unchanged, and no candidate is attempted twice in one call.
C25_LastFailureOnce ==
    /\ Len(Attempts) <= Len(fallback.candidates)
    /\ \A a, b \in 1..Len(Attempts) :
          a # b => Attempts[a].executedOn # Attempts[b].executedOn
    /\ (fallback.pc = "done" /\ fallback.result.status # "ok") =>
          /\ fallback.result.status = "failed"
          /\ fallback.result.error = LastAttempt.error
          /\ fallback.result.candidate = LastAttempt.candidate

\* Both candidates were attempted and failed with different failures.
C25_Witness ==
    /\ fallback.pc = "done"
    /\ Len(Attempts) = 2
    /\ Attempts[1].error.kind = "auth"
    /\ Attempts[2].error.kind = "rate-limit"
    /\ fallback.result.status = "failed"

ConfiguredMaxHours ==
    UsageOr(fallback.cfg, "billingMaxHours", DefaultBillingMaxHours)

ConfiguredMaxConcurrent ==
    UsageOr(lane.cfg, "maxConcurrent", DefaultMaxConcurrent)

TypingLog == typing.log

\* The positions of the log where the typing controller was called.
ControllerCalls == {i \in 1..Len(TypingLog) : TypingLog[i].kind = "call"}

\* The calls that start the indicator.
StartCalls ==
    {i \in ControllerCalls :
        TypingLog[i].name \in {"startTypingLoop", "startTypingOnText"}}

SignalsRaised ==
    {TypingLog[i].name : i \in {j \in 1..Len(TypingLog) :
                                   TypingLog[j].kind = "signal"}}

\* C28: for a heartbeat run, or with typing mode never, no signal calls the
\* typing controller, and resolveTypingMode gives never for a heartbeat run
\* whatever is configured.
C28_DisabledNeverCalls ==
    /\ (typing.isHeartbeat \/ typing.mode = "never") => ControllerCalls = {}
    /\ typing.ctx.isHeartbeat => resolveTypingMode(typing.ctx) = "never"

\* A heartbeat run whose signaler was created with mode instant raised the
\* four signals and called nothing.
C28_Witness ==
    /\ typing.pc = "done"
    /\ typing.isHeartbeat /\ typing.mode = "instant"
    /\ typing.ctx.configured = "instant"
    /\ SignalsRaised =
          {"runStart", "textDelta", "reasoningDelta", "toolStart"}
    /\ ControllerCalls = {}

\* C29: in mode instant, for a run that is no heartbeat, every event that
\* is forwarded comes after a start call of the run-start signal.
C29_InstantStartsFirst ==
    (typing.mode = "instant" /\ ~typing.isHeartbeat) =>
       \A i \in 1..Len(TypingLog) :
          TypingLog[i].kind = "forward" =>
             \E j \in 1..(i - 1) :
                /\ TypingLog[j].kind = "call"
                /\ TypingLog[j].name = "startTypingLoop"
                /\ TypingLog[j].by = "runStart"

Thinking == typing.mode = "thinking" /\ ~typing.isHeartbeat

\* C30 as stated: in mode thinking only a reasoning delta starts the
\* indicator; text-delta and tool-start signals call no start operation.
C30_OnlyReasoningStarts ==
    Thinking => \A i \in StartCalls : TypingLog[i].by = "reasoningDelta"

\* C30: in mode thinking a text delta calls no start operation, it only
\* refreshes the liveness TTL; the indicator is started by a reasoning
\* delta and by a tool start, which calls startTypingLoop.
C30_TextOnlyRefreshes ==
    Thinking =>
       /\ \A i \in StartCalls :
             TypingLog[i].by \in {"reasoningDelta", "toolStart"}
       /\ \A i \in ControllerCalls :
             TypingLog[i].by = "textDelta" =>
                TypingLog[i].name = "refreshTypingTtl"
       /\ \A i \in 1..Len(TypingLog) :
             (TypingLog[i].kind = "signal"
              /\ TypingLog[i].name \in {"textDelta", "toolStart"}) =>
                /\ i < Len(TypingLog)
                /\ TypingLog[i + 1].kind = "call"
                /\ TypingLog[i + 1].name =
                      IF TypingLog[i].name = "textDelta"
                      THEN "refreshTypingTtl" ELSE "startTypingLoop"

\* In mode thinking a text delta, a tool start and a reasoning delta were
\* signalled.
C30_Witness ==
    /\ Thinking
    /\ {"textDelta", "toolStart", "reasoningDelta"} \subseteq SignalsRaised

\* The positions of the log where a tool-start signal was raised.
ToolStarts ==
    {i \in 1..Len(TypingLog) :
        TypingLog[i].kind = "signal" /\ TypingLog[i].name = "toolStart"}

\* The controller calls that the signal at position i made.
CallsOf(i) ==
    {j \in ControllerCalls :
        /\ j > i
        /\ \A k \in (i + 1)..j : TypingLog[k].kind = "call"}

\* C31: a tool-execution-start event calls startTypingLoop, and nothing
\* else, in the modes instant, message and thinking, and calls nothing when
\* the mode is never or the run is a heartbeat.
C31_ToolStartKeepsAlive ==
    \A i \in ToolStarts :
       IF typing.isHeartbeat \/ typing.mode = "never"
       THEN CallsOf(i) = {}
       ELSE /\ CallsOf(i) = {i + 1}
            /\ TypingLog[i + 1].name = "startTypingLoop"
            /\ TypingLog[i + 1].by = "toolStart"

\* A tool start was signalled in mode message, where nothing else has
\* started the indicator.
C31_Witness ==
    /\ typing.mode = "message" /\ ~typing.isHeartbeat
    /\ ToolStarts = {1}
    /\ StartCalls = {2}

\* ------------------------------------------------ heartbeat token

\* The text is the token alone and there is no media.
TokenOnly(payload) ==
    /\ payload.text = <<HEARTBEAT_TOKEN>>
    /\ payload.mediaUrl = Undefined
    /\ payload.mediaUrls = <<>>

\* C32: in a run that is no heartbeat, an event whose text is the token
\* alone and that has no media is forwarded on no path (partial reply,
\* block reply, tool result, final payload).
C32_TokenOnlySuppressed ==
    ~typing.isHeartbeat =>
       \A i \in 1..Len(typing.log) :
          TokenOnly(typing.log[i].given) => typing.log[i].forwarded = <<>>

\* A token-only event came on each of the four paths.
C32_Witness ==
    /\ ~typing.isHeartbeat
    /\ typing.pc = "done"
    /\ \A path \in {"partial", "block", "tool", "final"} :
          \E i \in 1..Len(typing.log) :
             /\ typing.log[i].path = path
             /\ TokenOnly(typing.log[i].given)

\* ------------------------------------------------ order of deliveries

\* The caller's block callback was called for task i.
HandedOver(i) == blockTasks[i].stage \in {"handed", "delivered", "failed"}

\* C33: the blocks of a run are handed to the block delivery callback in
\* the order of their emission: no block is handed over while an earlier
\* one still waits for its typing signal.
C33_BlocksInOrder ==
    \A i, j \in 1..Len(blockTasks) :
       (i < j /\ HandedOver(j)) => blockTasks[i].stage # "pending"

\* C34: a write of the session store by the call for one key keeps, for
\* every other key, the record the store file held when the write was made.
C34_OtherKeysKept ==
    \A i \in 1..Len(shared.writes) :
       \A k \in StoreKeys \ {shared.writes[i].key} :
          shared.writes[i].after[k] = shared.writes[i].before[k]

\* The requests that wait in the backlog of key k.
Pending(k) == SeqToSet(AllPrompts(backlog[k]))

\* C35: when every started run terminates, a request that waits in the
\* backlog of a key leaves it (a turn is started for it, or the drop policy
\* discards it for a later request), and a key whose backlog is empty and
\* whose turns have all ended is not active.
C35_BacklogIsStarted ==
    /\ \A k \in Keys, id \in 1..MaxRequests :
          (id \in Pending(k)) ~> (id \notin Pending(k))
    /\ \A k \in Keys :
          [](backlog[k] = <<>> /\ InFlight(runs) = {} => ~IsActive(runs, k))

\* A delivery task of the call that has not settled.
UnsettledTask ==
    \/ \E i \in 1..Len(blockTasks) :
          blockTasks[i].stage \in {"pending", "handed"}
    \/ \E i \in 1..Len(toolTasks) : toolTasks[i] = "pending"

\* C36: when the call returns (payloads, nothing to send, or the failure
\* payload of the catch) and the run is marked complete, every block and
\* tool-result task it started has settled, and no task settles (signals
\* typing, delivers) after the run was marked complete.
C36_TasksSettledAtReturn ==
    /\ (outcome.markedComplete
          /\ outcome.exit \in {"payloads", "nothing", "failure"}) =>
          ~UnsettledTask
    /\ step.op \in {"settle", "toolSettle"} => ~outcome.markedComplete

\* The message the model call of the turn threw.
ThrownRaw == fallback.result.error.raw

\* C37: a failed run whose error message isContextOverflowError classifies as
\* a context overflow returns the short context-overflow text, not the
\* generic failure text with the raw message in it.
C37_OverflowTextForOverflow ==
    (/\ step.op = "model"
     /\ outcome.exit = "failure"
     /\ isContextOverflowError(ThrownRaw)
     /\ ~step.message.corruption) =>
        outcome.failure.kind = "overflow"

\* The requests that were injected into a live run of key k.
Injected(k) ==
    UNION {SeqToSet(runs[r].injected) :
              r \in {q \in 1..Len(runs) : runs[q].key = k}}

\* The requests that turns of key k were started for.
Started(k) ==
    UNION {SeqToSet(runs[r].entry.prompts) :
              r \in {q \in 1..Len(runs) : runs[q].key = k}}

\* C38 as claimed: in every queue mode a request that was injected into the
\* live run is not in the backlog and no turn is started for it.
C38_InjectedNeverEnqueued ==
    \A k \in Keys : Injected(k) \cap (Pending(k) \cup Started(k)) = {}

\* C38: a request injected into the live run under mode steer, where no
\* follow-up is kept, is reported as Injected, is not appended to the
\* backlog and starts no turn; under the modes that steer and keep a backlog
\* (steer-backlog, steer+backlog) the injected request is handed to the
\* backlog as well, under the cap / drop rule.
C38_InjectedOnceInSteerMode ==
    (last.op = "admit" /\ last.steered) =>
        /\ last.id \in Injected(last.key)
        /\ Len(runs) = last.runsBefore
        /\ IF ShouldFollowup(Mode)
           THEN /\ last.decision \in {"Enqueued", "Dropped"}
                /\ last.decision = "Enqueued" <=> last.id \in Pending(last.key)
                /\ last.decision = "Dropped" =>
                      /\ backlog[last.key] = last.backlogBefore
                      /\ Len(last.backlogBefore) >= settings.cap
                      /\ settings.drop = "new"
           ELSE /\ last.decision = "Injected"
                /\ backlog[last.key] = last.backlogBefore
                /\ last.id \notin Pending(last.key)

\* Under steer-backlog a request was injected into the streaming run and was
\* appended to the backlog behind an earlier request.
C38_Witness ==
    /\ last.op = "admit" /\ last.steered
    /\ Mode = "steer-backlog"
    /\ last.decision = "Enqueued"
    /\ last.backlogBefore # <<>>
    /\ last.id \in Injected(last.key) \cap Pending(last.key)

\* The blocks whose delivery failed.
FailedBlocks == {i \in 1..Len(blockTasks) : blockTasks[i].stage = "failed"}

\* The final payloads that the call returned.
Returned == SeqToSet(outcome.payloads)

\* C39: the key of a block whose delivery failed is recorded as delivered
\* only if another block with that key was delivered, and when the turn
\* returns, a final payload whose key is the key of a failed block and of no
\* delivered block is returned, whatever else was delivered.
C39_FailedBlockStillReturned ==
    /\ \A i \in FailedBlocks :
          blockTasks[i].key \in streamedPayloadKeys =>
             \E j \in DeliveredBlocks : blockTasks[j].key = blockTasks[i].key
    /\ (pc = "done" /\ step.op = "return" /\ call.blockStreamingEnabled) =>
          \A f \in 1..Len(step.finals) :
             (/\ \E i \in FailedBlocks :
                    DedupKey(blockTasks[i].payload) = DedupKey(step.finals[f])
              /\ NotDelivered(step.finals[f])) =>
                 step.finals[f] \in Returned

\* The tasks enqueued with the key of task i ahead of it.
EarlierSameKey(i) ==
    {j \in 1..(i - 1) : cli.tasks[j].key = cli.tasks[i].key}

\* The tasks of one key run one at a time, in the order they were enqueued, a
\* task that failed does not hold back the next one, and a task waits for no
\* task of another key.
CliSerialPerKey ==
    \A i \in 1..Len(cli.tasks) :
       /\ cli.tasks[i].state # "waiting" =>
             \A j \in EarlierSameKey(i) : Settled(cli.tasks[j].state)
       /\ cli.tasks[i].state = "waiting" =>
             (ENABLED CliTaskStarts(i) <=>
                 \A j \in EarlierSameKey(i) : Settled(cli.tasks[j].state))

\* C40: the tasks enqueued with one key never overlap and start in enqueue
\* order, a failing task does not prevent the later tasks of its key, tasks
\* of different keys are not ordered against each other, and the failure of
\* a task is reported to its own caller only.
C40_SerialAndFailureIsolated ==
    /\ CliSerialPerKey
    /\ cli.unhandled = {}

====
